---- MODULE Spec2Model ----
(***************************************************************************)
(* Slice2Print geometry pipeline: contour assembly (slicer/slicer.py),     *)
(* the per-triangle slicer with its progress callback, and the layer stack *)
(* of the sliced model (slicer/sliced_model.py).                           *)
(*                                                                         *)
(* Lengths are integers.  One integer unit is 1/VERTEX_PRECISION mm, the   *)
(* unit of the slicer's int32 vertices; values the program holds as float  *)
(* millimetres are kept in "raw" units of 1/SubUnits of an integer unit,   *)
(* so that int(x * VERTEX_PRECISION) is the truncating division by         *)
(* SubUnits.                                                               *)
(***************************************************************************)
EXTENDS Integers, Sequences, FiniteSets, TLC

(* ------------------------------ bounds -------------------------------- *)

\* Largest number of intersections of one layer handed to a Contour.
MaxIntersections == 4

\* Raw units per integer unit: the resolution of the float millimetre values.
SubUnits == 2

\* Largest vertex height of a mesh, in integer units.
MaxHeight == 2

\* Largest first_layer_height and layer_height, in integer units.
MaxLayerHeight == 1

\* Largest update_interval handed to the Slicer.
MaxInterval == 2

\* Largest number of contours handed to a SlicedModel.
MaxLayers == 4

\* Largest cfg.perimeters.
MaxPerimeters == 2

\* Largest cfg.bottom_layers and cfg.top_layers.
MaxSolidLayers == 2

\* Largest number of create_perimeters and create_infill calls on a SlicedModel.
MaxCalls == 2

\* Largest cfg.perimeters of the offset arithmetic.
MaxRings == 3

\* Largest number of facets of an STL file.
MaxFacets == 2

\* Most Contour.add calls on a Contour fed with any intersections
MaxAdds == 3

\* Largest z of a vertex of a Triangle on its own, in integer units
MaxZ == 4

\* Largest x of such a vertex
MaxX == 1

\* Largest first_layer_height and layer_height given to Triangle.slice
MaxStep == 2

\* Most update calls the slicer makes while the SlicerDialog waits for it
MaxUpdates == 8

\* Largest extent of the boundary of an infill comb
MaxExtent == 10

\* Largest distance of two infill lines
MaxSpacing == 6

\* Longest chain of a Contour handed to a Layer
MaxChain == 4

(* ----------------------------- variables ------------------------------ *)

VARIABLES
    \* Contour of one layer fed by hand (ContourSpec)
    layer_ints,     \* the layer's intersections, id -> Intersection
    pending,        \* ids not yet passed to Contour.add
    contour,        \* Contour.contour: sequence of chains (Intersections.intersections)
    merges          \* number of Contour.add calls that merged two chains (observation only)

cvars == <<layer_ints, pending, contour, merges>>

VARIABLES
    \* Slicer and ModelSlicer (SlicerSpec)
    model,            \* model.vertices[model.indices]: sequence of triangles, raw units
    slicer_config,    \* [first_layer_height, layer_height], raw units
    update_func,      \* TRUE when a progress callback was given
    update_interval,
    triangles,        \* Slicer.vertices[Slicer.indices]: integer triangles
    contours,         \* Slicer.contours: one Contour per layer
    triangle_no,      \* triangles taken from the list so far
    cancelled,        \* Slicer.cancelled
    pc,               \* "slicing", "done", or the exception that ended slice()
    sliced_model,     \* ModelSlicer.sliced_model
    cancel,           \* SlicerDialog.cancel, what the callback returns
    callbacks,        \* number of callback invocations (observation only)
    cancel_at         \* triangle_no when cancel was set, -1 before (observation only)

svars == <<model, slicer_config, update_func, update_interval, triangles, contours,
           triangle_no, cancelled, pc, sliced_model, cancel, callbacks, cancel_at>>

VARIABLES
    \* SlicedModel (SlicedModelSpec)
    sm_cfg,           \* SlicedModel.cfg
    sm_contours,      \* the contours the SlicedModel was built from
    layers,           \* SlicedModel.layers
    call_log          \* the methods called on the SlicedModel so far (observation only)

mvars == <<sm_cfg, sm_contours, layers, call_log>>

VARIABLES
    \* offset_outlines ring by ring (OffsetSpec)
    off_cfg,          \* [nozzle_diameter, layer_height, perimeters]
    displacements     \* net inward displacement of the rings computed so far

ovars == <<off_cfg, displacements>>

VARIABLES
    \* StlFileParser (ParserSpec)
    route,            \* the parser StlFileParser.parse hands the file to
    file_lines,       \* the lines of the file read so far (observation only)
    parser,           \* the fields of the StlFileParser
    seen,             \* the (vertex, normal) pairs passed to _add_vertex so far
                      \* (observation only)
    result            \* "parsing", "mesh" when parse returned its tuple, or the
                      \* exception parse raised

pvars == <<route, file_lines, parser, seen, result>>

VARIABLES
    \* One Triangle (TriangleSpec)
    t_input,          \* the three vertices given to Triangle.__init__
    t_heights,        \* [first_layer_height, layer_height] given to Triangle.slice
    triangle,         \* the Triangle, "none" before it is built
    yielded,          \* the Intersections Triangle.slice yielded, in order
    t_pc              \* "none", "input", "built", "sliced"

tvars == <<t_input, t_heights, triangle, yielded, t_pc>>

VARIABLES
    \* SlicerDialog of ui/dialog.py, slicing on the event loop (DialogSpec)
    dlg_cancel,        \* SlicerDialog.cancel
    dlg_sliced_model,  \* SlicerDialog.sliced_model
    gauge,             \* the value last given to gauge.SetValue
    static_text,       \* the label last given to staticText.SetLabel
    slicer_updates,    \* the update calls the slicer makes when left to finish
    dlg_pc,            \* "none", "slicing", "yield" (inside wx.Yield), "ended"
    model_calls,       \* the methods called on the sliced model so far
    update_log,        \* message and return value of every update call so far
                       \* (observation only)
    end_modal          \* the code given to EndModal, "none" before

dvars == <<dlg_cancel, dlg_sliced_model, gauge, static_text, slicer_updates,
           dlg_pc, model_calls, update_log, end_modal>>

VARIABLES
    \* The comb of infill lines before rotation (CombSpec)
    comb_in,          \* [line_length, line_distance]
    comb,             \* infill: the segments appended so far, in order
    comb_pc           \* "none", "input", "built"

bvars == <<comb_in, comb, comb_pc>>

VARIABLES
    \* Layer._merge_intersecting_meshes on one Contour (MergeSpec)
    merge_contour,    \* the Contour: a sequence of chains of Intersections
    pc_paths,         \* the paths given to pc.AddPath, with the chain each came from
    merge_pc          \* "none", "input", "outlines" or "EmptyLayerException"

lvars == <<merge_contour, pc_paths, merge_pc>>

VARIABLES
    \* SlicerDialog of dialog/slicer.py with its worker thread (ThreadSpec)
    th_worker,        \* the thread: "none", "running", "finished"
    th_updates_left,  \* progress callbacks the slicer still makes if it is not cancelled
    th_events,        \* _update calls posted with wx.CallAfter and not yet run
    th_cancel,        \* SlicerDialog.cancel
    th_cancelled,     \* Slicer.cancelled
    th_end_modal      \* the code given to EndModal, "none" while the dialog is open

hvars == <<th_worker, th_updates_left, th_events, th_cancel, th_cancelled, th_end_modal>>

vars == <<cvars, svars, mvars, ovars, pvars, tvars, dvars, bvars, lvars, hvars>>

\* What the steps of one part leave alone
outside_contour == <<svars, mvars, ovars, pvars, tvars, dvars, bvars, lvars, hvars>>

outside_slicer == <<cvars, mvars, ovars, pvars, tvars, dvars, bvars, lvars, hvars>>

outside_sliced_model == <<cvars, svars, ovars, pvars, tvars, dvars, bvars, lvars, hvars>>

outside_offsets == <<cvars, svars, mvars, pvars, tvars, dvars, bvars, lvars, hvars>>

outside_parser == <<cvars, svars, mvars, ovars, tvars, dvars, bvars, lvars, hvars>>

outside_triangle == <<cvars, svars, mvars, ovars, pvars, dvars, bvars, lvars, hvars>>

outside_dialog == <<cvars, svars, mvars, ovars, pvars, tvars, bvars, lvars, hvars>>

outside_comb == <<cvars, svars, mvars, ovars, pvars, tvars, dvars, lvars, hvars>>

outside_merge == <<cvars, svars, mvars, ovars, pvars, tvars, dvars, bvars, hvars>>

outside_thread == <<cvars, svars, mvars, ovars, pvars, tvars, dvars, bvars, lvars>>

(* ------------------------------ helpers ------------------------------- *)

Min(S) == CHOOSE x \in S : \A y \in S : x <= y

Max(S) == CHOOSE x \in S : \A y \in S : x >= y

\* deque.remove of the element at position k
RemoveAt(s, k) == [j \in 1..(Len(s) - 1) |-> IF j < k THEN s[j] ELSE s[j + 1]]

(* ------------- Intersections (one chain) and Contour ------------------ *)

first(chain) == chain[1]

last(chain) == chain[Len(chain)]

closed(chain) == last(chain).backward_edge = first(chain).forward_edge

is_adjacent_to_first_element(chain, x) == x.backward_edge = first(chain).forward_edge

is_adjacent_to_last_element(chain, x) == x.forward_edge = last(chain).backward_edge

\* Intersections.add_intersections_to_back: self.extend(other)
add_intersections_to_back(chain, other) == chain \o other

Reverse(s) == [j \in 1..Len(s) |-> s[Len(s) + 1 - j]]

\* extendleft(other) without reversed(): the other chain ends up back to front.
add_intersections_to_front_unreversed(chain, other) == Reverse(other) \o chain

\* Intersections.add_intersections_to_front: self.extendleft(reversed(other))
add_intersections_to_front(chain, other) == other \o chain

\* A merge that leaves the merged chain in the Contour as well.
Contour_add_to_back_keeping(c, k) ==
    LET cand == {j \in 1..Len(c) :
                    j # k /\ is_adjacent_to_last_element(c[j], first(c[k]))}
    IN  IF cand = {} THEN c
        ELSE [c EXCEPT ![Min(cand)] = add_intersections_to_back(c[Min(cand)], c[k])]

\* Contour.add_to_back_if_adjacent(chain k): chain k is appended to the first
\* other chain whose last element is adjacent to k's first, and removed.
Contour_add_to_back_if_adjacent(c, k) ==
    LET cand == {j \in 1..Len(c) :
                    j # k /\ is_adjacent_to_last_element(c[j], first(c[k]))}
    IN  IF cand = {} THEN c
        ELSE RemoveAt([c EXCEPT ![Min(cand)] =
                          add_intersections_to_back(c[Min(cand)], c[k])], k)

\* A merge at the front that puts the merged chain behind the other one.
Contour_add_to_front_behind(c, k) ==
    LET cand == {j \in 1..Len(c) :
                    j # k /\ is_adjacent_to_first_element(c[j], last(c[k]))}
    IN  IF cand = {} THEN c
        ELSE RemoveAt([c EXCEPT ![Min(cand)] =
                          add_intersections_to_back(c[Min(cand)], c[k])], k)

\* Contour.add_to_front_if_adjacent(chain k): chain k is put in front of the
\* first other chain whose first element is adjacent to k's last, and removed.
Contour_add_to_front_if_adjacent(c, k) ==
    LET cand == {j \in 1..Len(c) :
                    j # k /\ is_adjacent_to_first_element(c[j], last(c[k]))}
    IN  IF cand = {} THEN c
        ELSE RemoveAt([c EXCEPT ![Min(cand)] =
                          add_intersections_to_front(c[Min(cand)], c[k])], k)

\* Contour.add: the first chain (in deque order) that takes x at its front or,
\* failing that, at its back; then the merge of that chain; else a new chain.
Contour_add(c, x) ==
    LET hit == {j \in 1..Len(c) :
                   \/ is_adjacent_to_first_element(c[j], x)
                   \/ is_adjacent_to_last_element(c[j], x)}
    IN  IF hit = {} THEN Append(c, <<x>>)
        ELSE LET j == Min(hit)
             IN  IF is_adjacent_to_first_element(c[j], x)
                 THEN Contour_add_to_back_if_adjacent(
                          [c EXCEPT ![j] = <<x>> \o c[j]], j)
                 ELSE Contour_add_to_front_if_adjacent(
                          [c EXCEPT ![j] = Append(c[j], x)], j)

(* ------------------------- Vertex, Edge, Triangle --------------------- *)

\* int(): truncation towards zero of a / b, b > 0
TruncDiv(a, b) == IF a >= 0 THEN a \div b ELSE -((-a) \div b)

Vertex(x, y, z, flag) == [x |-> x, y |-> y, z |-> z, flag |-> flag]

\* Edge.__eq__ compares p and q with Vertex.__eq__, which leaves the flag
\* out: an Edge is held as the coordinates of p and of q.
Edge(p, q) == [p |-> <<p.x, p.y, p.z>>, q |-> <<q.x, q.y, q.z>>]

\* Edge.get_point_at_z, int() of the interpolated x and y
get_point_at_z(e, z) ==
    IF e.q[3] = e.p[3] THEN "ZeroDivisionError"
    ELSE <<TruncDiv(e.p[1] * (e.q[3] - e.p[3]) + (z - e.p[3]) * (e.q[1] - e.p[1]),
                    e.q[3] - e.p[3]),
           TruncDiv(e.p[2] * (e.q[3] - e.p[3]) + (z - e.p[3]) * (e.q[2] - e.p[2]),
                    e.q[3] - e.p[3])>>

\* Triangle.__init__: the vertices tagged 0, 1, 2 and ordered by z
Triangle(t) ==
    LET v1 == Vertex(t[1][1], t[1][2], t[1][3], 0)
        v2 == Vertex(t[2][1], t[2][2], t[2][3], 1)
        v3 == Vertex(t[3][1], t[3][2], t[3][3], 2)
        o  == IF v1.z >= v2.z /\ v2.z >= v3.z THEN <<v1, v2, v3>>
              ELSE IF v1.z >= v3.z /\ v3.z >= v2.z THEN <<v1, v3, v2>>
              ELSE IF v2.z >= v1.z /\ v1.z >= v3.z THEN <<v2, v1, v3>>
              ELSE IF v2.z >= v3.z /\ v3.z >= v1.z THEN <<v2, v3, v1>>
              ELSE IF v3.z >= v1.z /\ v1.z >= v2.z THEN <<v3, v1, v2>>
              ELSE IF v3.z >= v2.z /\ v2.z >= v1.z THEN <<v3, v2, v1>>
              ELSE <<>>
    IN  IF o = <<>> THEN [ordered |-> FALSE]  \* no branch taken: vz_min is not set
        ELSE [ordered |-> TRUE,
              vz_max |-> o[1], vz_med |-> o[2], vz_min |-> o[3],
              s1 |-> Edge(o[3], o[1]),
              s2 |-> Edge(o[3], o[2]),
              s3 |-> Edge(o[2], o[1])]

\* The forward edges taken without a look at the orientation.
get_forward_edge_one_row(T) == <<T.s1, T.s1, T.s2, T.s3>>

\* The forward edges with the rows of two orientations exchanged.
get_forward_edge_rows_exchanged(T) ==
    LET a == <<T.s2, T.s3, T.s1, T.s1>>
        b == <<T.s1, T.s1, T.s2, T.s3>>
    IN  CASE T.vz_min.flag = 0 /\ T.vz_max.flag = 1 -> a
          [] T.vz_min.flag = 0 /\ T.vz_max.flag = 2 -> b
          [] T.vz_min.flag = 1 /\ T.vz_max.flag = 0 -> b
          [] T.vz_min.flag = 1 /\ T.vz_max.flag = 2 -> a
          [] T.vz_min.flag = 2 /\ T.vz_max.flag = 0 -> b
          [] T.vz_min.flag = 2 /\ T.vz_max.flag = 1 -> a
          [] OTHER -> <<>>

\* Triangle.get_forward_edge:
\* <<lower forward, upper forward, lower backward, upper backward>>
get_forward_edge(T) ==
    LET a == <<T.s2, T.s3, T.s1, T.s1>>
        b == <<T.s1, T.s1, T.s2, T.s3>>
    IN  CASE T.vz_min.flag = 0 /\ T.vz_max.flag = 1 -> a
          [] T.vz_min.flag = 0 /\ T.vz_max.flag = 2 -> b
          [] T.vz_min.flag = 1 /\ T.vz_max.flag = 0 -> b
          [] T.vz_min.flag = 1 /\ T.vz_max.flag = 2 -> a
          [] T.vz_min.flag = 2 /\ T.vz_max.flag = 0 -> a
          [] T.vz_min.flag = 2 /\ T.vz_max.flag = 1 -> b
          [] OTHER -> <<>>  \* no return statement reached: None

\* The first layer taken without the + 1: the plane through vz_min counts.
slice_start_at_vz_min(T, first_layer_height, layer_height) ==
    Max({0, (T.vz_min.z - first_layer_height) \div layer_height})

\* Triangle.slice: start, middle, end
slice_start(T, first_layer_height, layer_height) ==
    Max({0, ((T.vz_min.z - first_layer_height) \div layer_height) + 1})

\* The middle layer taken without the + 1: the plane through vz_med is cut
\* on the upper edges.
slice_middle_at_vz_med(T, first_layer_height, layer_height) ==
    Max({0, (T.vz_med.z - first_layer_height) \div layer_height})

slice_middle(T, first_layer_height, layer_height) ==
    Max({0, ((T.vz_med.z - first_layer_height) \div layer_height) + 1})

\* The last layer taken one too far: a plane above vz_max is cut as well.
slice_end_past_vz_max(T, first_layer_height, layer_height) ==
    Max({0, ((T.vz_max.z - first_layer_height) \div layer_height) + 2})

slice_end(T, first_layer_height, layer_height) ==
    Max({0, ((T.vz_max.z - first_layer_height) \div layer_height) + 1})

Intersection(point, forward_edge, backward_edge, layer, tri) ==
    [intersection |-> point, forward_edge |-> forward_edge,
     backward_edge |-> backward_edge, layer |-> layer, tri |-> tri]

\* range(a, b) as a sequence
Range(a, b) == [k \in 1..(b - a) |-> a + k - 1]

\* Triangle.slice: the Intersections it yields, in order.  tri is the number
\* of the triangle, carried along for observation only.
Triangle_slice(T, first_layer_height, layer_height, tri) ==
    LET start  == slice_start(T, first_layer_height, layer_height)
        middle == slice_middle(T, first_layer_height, layer_height)
        end    == slice_end(T, first_layer_height, layer_height)
        fe     == get_forward_edge(T)
        lower  == Range(start, middle)
        upper  == Range(middle, end)
        at(layer, f, b) ==
            LET z == first_layer_height + layer * layer_height
                pt == get_point_at_z(f, z)
            IN  Intersection(IF pt = "ZeroDivisionError" THEN pt
                             ELSE <<pt[1], pt[2], z>>, f, b, layer, tri)
    IN  [k \in 1..Len(lower) |-> at(lower[k], fe[1], fe[3])]
        \o [k \in 1..Len(upper) |-> at(upper[k], fe[2], fe[4])]

(* -------------------------------- Slicer ------------------------------ *)

\* model.bounding_box: the extent of the mesh on axis a (1, 2, 3)
bb_min(m, a) == Min({m[i][j][a] : i \in 1..Len(m), j \in 1..3})

bb_max(m, a) == Max({m[i][j][a] : i \in 1..Len(m), j \in 1..3})

\* Slicer.__init__: floor((dimensions.z - first_layer_height) / layer_height + 1)
layer_count(m, cfg) ==
    ((bb_max(m, 3) - bb_min(m, 3)) - cfg.first_layer_height) \div cfg.layer_height + 1

\* Slicer.__init__: the mesh centred in x and y, its z_min put to 0, scaled
\* by VERTEX_PRECISION and cut to int32
slicer_vertices(m) ==
    [i \in 1..Len(m) |-> [j \in 1..3 |->
        <<TruncDiv(2 * m[i][j][1] - (bb_max(m, 1) + bb_min(m, 1)), 2 * SubUnits),
          TruncDiv(2 * m[i][j][2] - (bb_max(m, 2) + bb_min(m, 2)), 2 * SubUnits),
          TruncDiv(m[i][j][3] - bb_min(m, 3), SubUnits)>>]]

\* Slicer.slice: int(first_layer_height * VERTEX_PRECISION)
int_first_layer_height(cfg) == cfg.first_layer_height \div SubUnits

\* Slicer.slice: int(layer_height * VERTEX_PRECISION)
int_layer_height(cfg) == cfg.layer_height \div SubUnits

\* self.contours[layer]: the position in the list, 0 for an IndexError
contours_index(cs, layer) ==
    IF 0 <= layer /\ layer < Len(cs) THEN layer + 1
    ELSE IF layer < 0 /\ -Len(cs) <= layer THEN Len(cs) + layer + 1
    ELSE 0

\* for intersection in triangle.slice(...): self.contours[layer].add(intersection)
\* from the k-th on; ends at the first exception
RECURSIVE add_intersections(_, _, _)
add_intersections(cs, ints, k) ==
    IF k > Len(ints) THEN [contours |-> cs, raised |-> "no"]
    ELSE IF ints[k].intersection = "ZeroDivisionError"
         THEN [contours |-> cs, raised |-> "ZeroDivisionError"]
    ELSE IF contours_index(cs, ints[k].layer) = 0
         THEN [contours |-> cs, raised |-> "IndexError"]
    ELSE add_intersections(
             [cs EXCEPT ![contours_index(cs, ints[k].layer)] =
                            Contour_add(@, ints[k])], ints, k + 1)

\* if triangle.vz_min.z != triangle.vz_max.z
not_horizontal(T) == T.vz_min.z # T.vz_max.z

\* if self.update_func is not None and triangle_no % self.update_interval == 0,
\* as reached in the body of the loop
callback_due(T, n) ==
    not_horizontal(T) /\ update_func /\ n % update_interval = 0

\* A loop that goes on after the callback returned cancel.
loop_continues_without_break == triangle_no < Len(triangles)

\* for i, j, k in self.indices, left by break once cancelled
loop_continues == ~cancelled /\ triangle_no < Len(triangles)

(* ------------------------------- meshes ------------------------------- *)

\* A vertex at integer x, y and raw height z
Raw(x, y, z) == <<SubUnits * x, SubUnits * y, z>>

\* A triangle with its three vertices rotated by r places (same winding)
Rotated(t, r) == [j \in 1..3 |-> t[((j - 1 + r) % 3) + 1]]

\* A list rotated by r places
RotatedList(s, r) == [j \in 1..Len(s) |-> s[((j - 1 + r) % Len(s)) + 1]]

\* A prism over the triangle (0,0) (4,0) (0,4) from z = 0 to raw height h:
\* bottom, top, and two triangles per side, normals outwards
Prism(h) ==
    LET A0 == Raw(0, 0, 0)  B0 == Raw(4, 0, 0)  C0 == Raw(0, 4, 0)
        A1 == Raw(0, 0, h)  B1 == Raw(4, 0, h)  C1 == Raw(0, 4, h)
    IN  << <<A0, C0, B0>>, <<A0, B0, B1>>, <<A0, B1, A1>>, <<B0, C0, C1>>,
           <<B0, C1, B1>>, <<C0, A0, A1>>, <<C0, A1, C1>>, <<A1, B1, C1>> >>

\* A closed mesh of six triangles on five vertices A, B, C, D, E with raw
\* heights h[1..5]: ABC with D over it and E beside the edge AB
Hexahedron(h) ==
    LET A == Raw(0, 0, h[1])  B == Raw(4, 0, h[2])  C == Raw(0, 4, h[3])
        D == Raw(1, 1, h[4])  E == Raw(3, -2, h[5])
    IN  << <<A, C, B>>, <<B, C, D>>, <<C, A, D>>,
           <<A, B, E>>, <<B, D, E>>, <<D, A, E>> >>

\* A facet without area reaching up to the height of h integer units: with
\* two identical vertices, or with three vertices on one line
Degenerate(h, kind) ==
    IF kind = "identical"
    THEN <<Raw(0, 0, 0), Raw(0, 0, 0), Raw(2, 0, SubUnits * h)>>
    ELSE <<Raw(0, 0, 0), Raw(1, 0, SubUnits * h), Raw(2, 0, 2 * SubUnits * h)>>

\* Heights and layer heights as float millimetres: a whole number of integer
\* units, or one raw unit more
RawValues(lo, hi) == {SubUnits * a + r : a \in lo..hi, r \in 0..1}

Configs ==
    {[first_layer_height |-> f, layer_height |-> l] :
        f \in RawValues(1, MaxLayerHeight), l \in RawValues(1, MaxLayerHeight)}

(* --------------------------- StlFileParser ---------------------------- *)

\* The floats of the bounding box: float("inf"), float("-inf") and the numbers
PlusInf == [inf |-> 1, v |-> 0]

MinusInf == [inf |-> -1, v |-> 0]

Num(n) == [inf |-> 0, v |-> n]

Less(a, b) == IF a.inf # b.inf THEN a.inf < b.inf ELSE a.inf = 0 /\ a.v < b.v

RECURSIVE Gcd(_, _)
Gcd(a, b) == IF b = 0 THEN a ELSE Gcd(b, a % b)

Abs(a) == IF a < 0 THEN -a ELSE a

\* StlFileParser._calc_normal: the unit vector of (v2-v1) x (v3-v1), held as
\* the shortest integer vector of its direction.  A facet without area has
\* the cross product 0 and the norm 0: the division gives three NaN, which
\* equal nothing but the very objects they are (id names the objects).
calc_normal(v1, v2, v3, id) ==
    LET a == <<v2[1] - v1[1], v2[2] - v1[2], v2[3] - v1[3]>>
        b == <<v3[1] - v1[1], v3[2] - v1[2], v3[3] - v1[3]>>
        n == <<a[2] * b[3] - a[3] * b[2],
               a[3] * b[1] - a[1] * b[3],
               a[1] * b[2] - a[2] * b[1]>>
        g == Gcd(Gcd(Abs(n[1]), Abs(n[2])), Abs(n[3]))
    IN  IF g = 0 THEN [nan |-> TRUE, value |-> <<0, 0, 0>>, id |-> id]
        ELSE [nan |-> FALSE, value |-> <<n[1] \div g, n[2] \div g, n[3] \div g>>,
              id |-> 0]

\* A normal read from the file
given_normal(n) == [nan |-> FALSE, value |-> n, id |-> 0]

\* The parser's fields after StlFileParser.__init__
ParserFields ==
    [parser_state |-> "START",
     normal |-> given_normal(<<0, 0, 0>>),
     vertex1 |-> <<>>, vertex2 |-> <<>>, vertex3 |-> <<>>,
     x_min |-> PlusInf, y_min |-> PlusInf, z_min |-> PlusInf,
     x_max |-> MinusInf, y_max |-> MinusInf, z_max |-> MinusInf,
     index |-> 0,
     index_mapping |-> {},      \* pairs <<(vertex, normal), index>>
     indices |-> <<>>, vertices |-> <<>>, normals |-> <<>>,
     facet_count |-> 0]

\* StlFileParser._add_vertex
add_vertex(p, vertex, normal) ==
    LET t    == <<vertex, normal>>
        hits == {e \in p.index_mapping : e[1] = t}
        q    == IF hits # {}
                THEN [p EXCEPT !.indices = Append(@, (CHOOSE e \in hits : TRUE)[2])]
                ELSE [p EXCEPT !.vertices = Append(@, vertex),
                               !.normals = Append(@, normal),
                               !.indices = Append(@, p.index),
                               !.index_mapping = @ \cup {<<t, p.index>>},
                               !.index = @ + 1]
    IN  [q EXCEPT
           !.x_min = IF Less(Num(vertex[1]), @) THEN Num(vertex[1]) ELSE @,
           !.x_max = IF Less(@, Num(vertex[1])) THEN Num(vertex[1]) ELSE @,
           !.y_min = IF Less(Num(vertex[2]), @) THEN Num(vertex[2]) ELSE @,
           !.y_max = IF Less(@, Num(vertex[2])) THEN Num(vertex[2]) ELSE @,
           !.z_min = IF Less(Num(vertex[3]), @) THEN Num(vertex[3]) ELSE @,
           !.z_max = IF Less(@, Num(vertex[3])) THEN Num(vertex[3]) ELSE @]

\* A facet's three vertices added, its normal computed when it is given as 0
add_facet(p, n, v1, v2, v3) ==
    LET normal == IF ~n.nan /\ n.value = <<0, 0, 0>>
                  THEN calc_normal(v1, v2, v3, p.facet_count + 1)
                  ELSE n
    IN  [add_vertex(add_vertex(add_vertex(p, v1, normal), v2, normal), v3, normal)
            EXCEPT !.normal = normal, !.facet_count = @ + 1]

\* BoundingBox.set_boundaries
bounding_box(p) ==
    [x_min |-> p.x_min, x_max |-> p.x_max, y_min |-> p.y_min,
     y_max |-> p.y_max, z_min |-> p.z_min, z_max |-> p.z_max]

\* The handlers of StlFileParser._parse_ascii: the parser after the line and
\* what the handler did: "True", "False", or the exception it raised
Handled(p, did) == [p |-> p, did |-> did]

do_start(p, line) ==
    IF line.kw # "solid" THEN Handled(p, "AssertionError")
    ELSE Handled([p EXCEPT !.parser_state = "SOLID"], "True")

do_solid(p, line) ==
    IF line.kw \notin {"facet normal", "endsolid"} THEN Handled(p, "AssertionError")
    ELSE IF line.kw = "facet normal"
    THEN IF Len(line.data) # 3
         THEN Handled([p EXCEPT !.parser_state = "FACET_NORMAL"], "AssertionError")
         ELSE Handled([p EXCEPT !.parser_state = "FACET_NORMAL",
                                !.normal = given_normal(line.data)], "True")
    ELSE Handled(p, "False")

do_facet_normal(p, line) ==
    IF line.kw # "outer loop" THEN Handled(p, "AssertionError")
    ELSE Handled([p EXCEPT !.parser_state = "OUTER_LOOP"], "True")

do_vertex(p, line, next_state, field) ==
    IF line.kw # "vertex" THEN Handled(p, "AssertionError")
    ELSE IF Len(line.data) # 3
    THEN Handled([p EXCEPT !.parser_state = next_state], "AssertionError")
    ELSE Handled([p EXCEPT !.parser_state = next_state, ![field] = line.data], "True")

do_outer_loop(p, line) == do_vertex(p, line, "VERTEX1", "vertex1")

do_vertex1(p, line) == do_vertex(p, line, "VERTEX2", "vertex2")

do_vertex2(p, line) == do_vertex(p, line, "VERTEX3", "vertex3")

do_vertex3(p, line) ==
    IF line.kw # "endloop" THEN Handled(p, "AssertionError")
    ELSE Handled(add_facet([p EXCEPT !.parser_state = "ENDLOOP"],
                           p.normal, p.vertex1, p.vertex2, p.vertex3), "True")

do_endloop(p, line) ==
    IF line.kw # "endfacet" THEN Handled(p, "AssertionError")
    ELSE Handled([p EXCEPT !.parser_state = "ENDFACET"], "True")

\* states[self.parser_state](ln)
states(p, line) ==
    CASE p.parser_state = "START" -> do_start(p, line)
      [] p.parser_state \in {"SOLID", "ENDFACET"} -> do_solid(p, line)
      [] p.parser_state = "FACET_NORMAL" -> do_facet_normal(p, line)
      [] p.parser_state = "OUTER_LOOP" -> do_outer_loop(p, line)
      [] p.parser_state = "VERTEX1" -> do_vertex1(p, line)
      [] p.parser_state = "VERTEX2" -> do_vertex2(p, line)
      [] p.parser_state = "VERTEX3" -> do_vertex3(p, line)
      [] p.parser_state = "ENDLOOP" -> do_endloop(p, line)

ParserIdle ==
    /\ route = "none"
    /\ file_lines = <<>>
    /\ parser = ParserFields
    /\ seen = <<>>
    /\ result = "none"

\* No Triangle stands alone.
TriangleIdle ==
    /\ t_input = <<>>
    /\ t_heights = <<>>
    /\ triangle = "none"
    /\ yielded = <<>>
    /\ t_pc = "none"

\* No SlicerDialog of ui/dialog.py is shown.
DialogIdle ==
    /\ dlg_cancel = FALSE
    /\ dlg_sliced_model = "None"
    /\ gauge = 0
    /\ static_text = ""
    /\ slicer_updates = 0
    /\ dlg_pc = "none"
    /\ model_calls = <<>>
    /\ update_log = <<>>
    /\ end_modal = "none"

\* No comb of infill lines is built.
CombIdle ==
    /\ comb_in = <<>>
    /\ comb = <<>>
    /\ comb_pc = "none"

\* No Layer is merging the chains of a Contour.
MergeIdle ==
    /\ merge_contour = <<>>
    /\ pc_paths = <<>>
    /\ merge_pc = "none"

\* No SlicerDialog of dialog/slicer.py is shown.
ThreadIdle ==
    /\ th_worker = "none"
    /\ th_updates_left = 0
    /\ th_events = 0
    /\ th_cancel = FALSE
    /\ th_cancelled = FALSE
    /\ th_end_modal = "none"

(* ------------------- SlicerSpec: Slicer and ModelSlicer --------------- *)

\* Slicer.__init__ and ModelSlicer.__init__ for mesh m
SlicerStart(m, cfg, uf, ui) ==
    /\ model = m
    /\ slicer_config = cfg
    /\ update_func = uf
    /\ update_interval = ui
    /\ triangles = slicer_vertices(m)
    /\ contours = [l \in 1..layer_count(m, cfg) |-> <<>>]
    /\ triangle_no = 0
    /\ cancelled = FALSE
    /\ pc = "slicing"
    /\ sliced_model = "None"
    /\ cancel = FALSE
    /\ callbacks = 0
    /\ cancel_at = -1

SlicerIdle ==
    /\ model = <<>>
    /\ slicer_config = [first_layer_height |-> SubUnits, layer_height |-> SubUnits]
    /\ update_func = FALSE
    /\ update_interval = 0
    /\ triangles = <<>>
    /\ contours = <<>>
    /\ triangle_no = 0
    /\ cancelled = FALSE
    /\ pc = "idle"
    /\ sliced_model = "None"
    /\ cancel = FALSE
    /\ callbacks = 0
    /\ cancel_at = -1

ContourIdle ==
    /\ layer_ints = <<>>
    /\ pending = {}
    /\ contour = <<>>
    /\ merges = 0

OffsetIdle ==
    /\ off_cfg = [nozzle_diameter |-> 0, layer_height |-> 0, perimeters |-> 0]
    /\ displacements = <<>>

SlicedModelIdle ==
    /\ sm_cfg = [first_layer_height |-> 1, layer_height |-> 1, perimeters |-> 1,
                 bottom_layers |-> 0, top_layers |-> 0]
    /\ sm_contours = <<>>
    /\ layers = <<>>
    /\ call_log = <<>>

\* The meshes without a callback: the six-triangle mesh with every choice of
\* vertex heights (E lowest) and of the vertex each triangle starts with.
\* The meshes of one facet without area, in any rotation of its vertices.
\* The meshes sliced from the dialog: the prism with its triangles in any
\* rotation of the list, with a callback and an update interval.
SlicerInit ==
    /\ ContourIdle
    /\ SlicedModelIdle
    /\ OffsetIdle
    /\ ParserIdle
    /\ TriangleIdle
    /\ DialogIdle
    /\ CombIdle
    /\ MergeIdle
    /\ ThreadIdle
    /\ \E cfg \in Configs :
          \/ \E h \in [1..4 -> {SubUnits * a : a \in 0..MaxHeight}], r \in 0..2 :
                SlicerStart([i \in 1..6 |->
                                Rotated(Hexahedron(h @@ (5 :> 0))[i], r)],
                            cfg, FALSE, 0)
          \/ \E h \in RawValues(1, MaxHeight), k \in 0..7, ui \in 1..MaxInterval :
                SlicerStart(RotatedList(Prism(h), k), cfg, TRUE, ui)
          \/ \E h \in 1..MaxHeight, kind \in {"identical", "colinear"}, r \in 0..2 :
                SlicerStart(<<Rotated(Degenerate(h, kind), r)>>, cfg, FALSE, 0)

\* One pass of the loop of Slicer.slice: the next triangle, its intersections
\* added to the contours of their layers, and the progress callback.
SliceStep ==
    /\ pc = "slicing"
    /\ loop_continues
    /\ LET n == triangle_no + 1
           T == Triangle(triangles[n])
           r == IF not_horizontal(T)
                THEN add_intersections(contours,
                         Triangle_slice(T, int_first_layer_height(slicer_config),
                                        int_layer_height(slicer_config), n), 1)
                ELSE [contours |-> contours, raised |-> "no"]
           due == r.raised = "no" /\ callback_due(T, n)
       IN  /\ triangle_no' = n
           /\ contours' = r.contours
           /\ pc' = IF r.raised = "no" THEN "slicing" ELSE r.raised
           /\ callbacks' = IF due THEN callbacks + 1 ELSE callbacks
           /\ cancelled' = IF due THEN cancel ELSE cancelled
    /\ UNCHANGED <<model, slicer_config, update_func, update_interval, triangles,
                   sliced_model, cancel, cancel_at>>
    /\ UNCHANGED outside_slicer

\* SlicerDialog.on_cancel, while the dialog is up
OnCancel ==
    /\ pc = "slicing"
    /\ update_func
    /\ ~cancel
    /\ cancel' = TRUE
    /\ cancel_at' = triangle_no
    /\ UNCHANGED <<model, slicer_config, update_func, update_interval, triangles,
                   contours, triangle_no, cancelled, pc, sliced_model, callbacks>>
    /\ UNCHANGED outside_slicer

\* Slicer.slice returns and ModelSlicer.execute goes on
ExecuteReturn ==
    /\ pc = "slicing"
    /\ ~loop_continues
    /\ pc' = "done"
    /\ sliced_model' = IF ~cancelled THEN "SlicedModel" ELSE "None"
    /\ UNCHANGED <<model, slicer_config, update_func, update_interval, triangles,
                   contours, triangle_no, cancelled, cancel, callbacks, cancel_at>>
    /\ UNCHANGED outside_slicer

SlicerNext == SliceStep \/ OnCancel \/ ExecuteReturn

SlicerSpec == SlicerInit /\ [][SlicerNext]_vars

(* ------------------ ContourSpec: one layer, any order ----------------- *)

\* The permutations of 1..n.
Perms(n) == {p \in [1..n -> 1..n] : \A a, b \in 1..n : p[a] = p[b] => a = b}

\* The intersections of one layer of a closed manifold mesh: every edge is
\* the forward edge of exactly one intersection and the backward edge of
\* exactly one.  Edges are named by numbers; Edge.__eq__ is equality of names.
ManifoldLayer(n, p) ==
    [i \in 1..n |-> [id |-> i, forward_edge |-> i, backward_edge |-> p[i]]]

ContourInit ==
    /\ SlicerIdle
    /\ SlicedModelIdle
    /\ OffsetIdle
    /\ ParserIdle
    /\ TriangleIdle
    /\ DialogIdle
    /\ CombIdle
    /\ MergeIdle
    /\ ThreadIdle
    /\ \E n \in 1..MaxIntersections : \E p \in Perms(n) :
          /\ layer_ints = ManifoldLayer(n, p)
          /\ pending = 1..n
    /\ contour = <<>>
    /\ merges = 0

\* Contour.add(intersection) for any intersection of the layer not yet added.
ContourAddStep ==
    \E i \in pending :
        LET c2 == Contour_add(contour, layer_ints[i])
        IN  /\ contour' = c2
            /\ pending' = pending \ {i}
            /\ merges' = IF Len(c2) < Len(contour) THEN merges + 1 ELSE merges
            /\ UNCHANGED layer_ints
            /\ UNCHANGED outside_contour

ContourNext == ContourAddStep

ContourSpec == ContourInit /\ [][ContourNext]_vars

(* -------------- AnyAddSpec: any intersections, any order -------------- *)

\* The names of the edges the intersections below refer to.
EdgeNames == {"e1", "e2", "e3"}

\* Any n intersections: each has any edge as its forward edge and any edge,
\* the same one included, as its backward edge; two may share an edge.
AnyLayers(n) ==
    {[i \in 1..n |-> [id |-> i, forward_edge |-> f[i], backward_edge |-> b[i]]] :
        f \in [1..n -> EdgeNames], b \in [1..n -> EdgeNames]}

\* The intersections of one layer of a mesh with holes: as a manifold layer,
\* but the backward edge of the intersections in B is an edge (0) that no
\* triangle of the layer has as its forward edge.
BrokenLayer(n, p, B) ==
    [i \in 1..n |-> [id |-> i, forward_edge |-> i,
                     backward_edge |-> IF i \in B THEN 0 ELSE p[i]]]

AnyAddInit ==
    /\ SlicerIdle
    /\ SlicedModelIdle
    /\ OffsetIdle
    /\ ParserIdle
    /\ TriangleIdle
    /\ DialogIdle
    /\ CombIdle
    /\ MergeIdle
    /\ ThreadIdle
    /\ \/ \E n \in 1..MaxAdds : \E ints \in AnyLayers(n) :
             /\ layer_ints = ints
             /\ pending = 1..n
       \/ \E n \in 1..MaxIntersections : \E p \in Perms(n) :
             \E B \in SUBSET (1..n) :
                /\ layer_ints = BrokenLayer(n, p, B)
                /\ pending = 1..n
    /\ contour = <<>>
    /\ merges = 0

AnyAddSpec == AnyAddInit /\ [][ContourNext]_vars

(* --------------------- Polygon engine, on a line of cells ------------- *)
(* A region of a layer is the set of the cells it covers along one axis    *)
(* through the layer; one cell is half an extrusion width.  The engine's   *)
(* union and difference are those of sets, an inward offset by d erodes    *)
(* by d cells and an outward offset dilates.                               *)

Erode(S, d) == {c \in S : \A e \in (c - d)..(c + d) : e \in S}

Dilate(S, d) == UNION {(c - d)..(c + d) : c \in S}

\* The centred region of half-width h; h < 0 is a contour without a path
Centred(h) == (-h)..h

\* cfg.extrusion_width_external_perimeter and cfg.extrusion_width, in cells
extrusion_width_external_perimeter == 2

extrusion_width == 2

\* layer_height * cfg.extrusion_overlap_factor, below the size of a cell
extrusion_overlap(layer_height) == 0 * layer_height

\* Layer.create_infill: the distance of two infill lines, in cells
line_distance == 1

\* offset_outlines(cfg, layer_height, outlines, nr_of_perimeters, inset)
offset_outlines(layer_height, outlines, nr_of_perimeters, inset) ==
    Dilate(Erode(outlines,
                 extrusion_width_external_perimeter
                 + (nr_of_perimeters - 1) * extrusion_width
                 - (nr_of_perimeters - 1) * extrusion_overlap(layer_height)),
           inset)

(* -------------------------------- Layer ------------------------------- *)

\* The z of the contour of a layer: first_layer_height + layer * layer_height
contour_z(cfg, layer_no) == cfg.first_layer_height + layer_no * cfg.layer_height

\* Layer.__init__; the union of the contour's paths is its region
Layer(cfg, c, layer_no) ==
    [outlines |-> c.paths, perimeters |-> <<>>, infill |-> <<>>,
     z |-> c.z, layer_no |-> layer_no,
     layer_height |-> IF layer_no > 0 THEN cfg.layer_height
                      ELSE cfg.first_layer_height,
     node_count |-> 0,
     infill_calls |-> 0,     \* create_infill calls on the layer (observation only)
     island |-> {}]          \* lines appended by create_island_top_layers
                             \* (observation only)

\* Layer._merge_intersecting_meshes raises EmptyLayerException
layer_init_raises(c) == c.paths = {}

\* Layer._create_external_perimeters: the first ring
external_perimeter(l) ==
    offset_outlines(l.layer_height, l.outlines, 1,
                    extrusion_width_external_perimeter \div 2)

\* Layer.create_perimeters raises EmptyLayerException
create_perimeters_raises(l) == external_perimeter(l) = {}

\* Layer._create_internal_perimeters from ring i + 1 on: ends at the first
\* empty ring
RECURSIVE internal_perimeters(_, _, _)
internal_perimeters(cfg, l, i) ==
    IF i >= cfg.perimeters THEN <<>>
    ELSE LET solution == offset_outlines(l.layer_height, l.outlines, i + 1,
                                         extrusion_width \div 2)
         IN  IF solution = {} THEN <<>>
             ELSE <<solution>> \o internal_perimeters(cfg, l, i + 1)

RECURSIVE SumCard(_)
SumCard(rings) ==
    IF rings = <<>> THEN 0 ELSE Cardinality(Head(rings)) + SumCard(Tail(rings))

\* The rings stored innermost first.
Layer_create_perimeters_inner_first(cfg, l) ==
    LET rings == internal_perimeters(cfg, l, 1) \o <<external_perimeter(l)>>
    IN  [l EXCEPT !.perimeters = @ \o rings,
                  !.node_count = @ + SumCard(rings)]

\* Layer.create_perimeters, when it does not raise
Layer_create_perimeters(cfg, l) ==
    LET rings == <<external_perimeter(l)>> \o internal_perimeters(cfg, l, 1)
    IN  [l EXCEPT !.perimeters = @ \o rings,
                  !.node_count = @ + SumCard(rings)]

\* A set of cells as the list of infill lines through them
RECURSIVE Lines(_)
Lines(S) == IF S = {} THEN <<>> ELSE <<Min(S)>> \o Lines(S \ {Min(S)})

\* The comb of lines about the origin, clipped to a region: the lines
\* 0, +-d, ..., +-n*d with n = ceil(line_length / d)
clipped_comb(region) ==
    LET line_length == Max(region) - Min(region)
        infill_inc  == (line_length + line_distance - 1) \div line_distance
    IN  IF infill_inc > 0
        THEN {c \in region : c % line_distance = 0
                             /\ -(infill_inc * line_distance) <= c
                             /\ c <= infill_inc * line_distance}
        ELSE {}

\* An infill that counts one node for a line.
Layer_create_infill_one_node_a_line(cfg, l) ==
    LET solution == offset_outlines(l.layer_height, l.outlines, cfg.perimeters, 0)
        lines    == IF solution = {} THEN {} ELSE clipped_comb(solution)
    IN  [l EXCEPT !.infill = @ \o Lines(lines),
                  !.node_count = @ + Cardinality(lines),
                  !.infill_calls = @ + 1]

\* Layer.create_infill
Layer_create_infill(cfg, l) ==
    LET solution == offset_outlines(l.layer_height, l.outlines, cfg.perimeters, 0)
        lines    == IF solution = {} THEN {} ELSE clipped_comb(solution)
    IN  [l EXCEPT !.infill = @ \o Lines(lines),
                  !.node_count = @ + 2 * Cardinality(lines),
                  !.infill_calls = @ + 1]

(* ----------------------------- SlicedModel ---------------------------- *)

\* A stack built back to front: every layer put before the earlier ones.
RECURSIVE SlicedModel_init_prepending(_, _, _)
SlicedModel_init_prepending(cfg, cs, k) ==
    IF k > Len(cs) THEN <<>>
    ELSE SlicedModel_init_prepending(cfg, cs, k + 1)
         \o (IF layer_init_raises(cs[k]) THEN <<>> ELSE <<Layer(cfg, cs[k], k - 1)>>)

\* SlicedModel.__init__ from the k-th contour on: a Layer per contour, in
\* order, but for those that raise EmptyLayerException
RECURSIVE SlicedModel_init(_, _, _)
SlicedModel_init(cfg, cs, k) ==
    IF k > Len(cs) THEN <<>>
    ELSE (IF layer_init_raises(cs[k]) THEN <<>> ELSE <<Layer(cfg, cs[k], k - 1)>>)
         \o SlicedModel_init(cfg, cs, k + 1)

\* SlicedModel.create_perimeters: the layers in order up to the first that
\* raises EmptyLayerException, which is removed; the rest is left as it is
SlicedModel_create_perimeters(cfg, ls) ==
    LET raising == {i \in 1..Len(ls) : create_perimeters_raises(ls[i])}
        stop    == IF raising = {} THEN Len(ls) + 1 ELSE Min(raising)
        done    == [i \in 1..Len(ls) |->
                       IF i < stop THEN Layer_create_perimeters(cfg, ls[i])
                       ELSE ls[i]]
    IN  IF raising = {} THEN done ELSE RemoveAt(done, stop)

\* SlicedModel.create_infill: bottom_layers and top_layers as used
clamped(cfg, n) ==
    IF cfg.bottom_layers + cfg.top_layers >= n
    THEN [bottom_layers |-> 1, top_layers |-> n - 1]
    ELSE [bottom_layers |-> cfg.bottom_layers, top_layers |-> cfg.top_layers]

\* The 0-based indices of s[:stop] and of s[start:] for a list of n elements
slice_to(n, stop) ==
    {i \in 0..(n - 1) : i < (IF stop >= 0 THEN stop ELSE n + stop)}

slice_from(n, start) ==
    {i \in 0..(n - 1) : i >= (IF start >= 0 THEN start ELSE n + start)}

\* A top pass that is not skipped for top_layers = 0.
top_pass_unguarded(n, top_layers) == slice_from(n, -top_layers)

\* if bottom_layers > 0: for layer in self.layers[:bottom_layers]
bottom_pass(n, bottom_layers) ==
    IF bottom_layers > 0 THEN slice_to(n, bottom_layers) ELSE {}

\* if top_layers > 0: for layer in self.layers[-top_layers:]
top_pass(n, top_layers) ==
    IF top_layers > 0 THEN slice_from(n, -top_layers) ELSE {}

infill_pass(cfg, ls, indices) ==
    [i \in 1..Len(ls) |->
        IF (i - 1) \in indices THEN Layer_create_infill(cfg, ls[i]) ELSE ls[i]]

\* SlicedModel.create_island_top_layers: for i = n-1 down to 2 the part of
\* layer i-1 that layer i leaves open gets infill lines, on layer i-1
create_island_top_layers(ls) ==
    [j \in 1..Len(ls) |->
        IF j >= 2 /\ j + 1 <= Len(ls)
        THEN LET solution == ls[j].outlines \ ls[j + 1].outlines
                 lines == IF solution = {} THEN {} ELSE clipped_comb(solution)
             IN  [ls[j] EXCEPT !.infill = @ \o Lines(lines),
                               !.node_count = @ + 2 * Cardinality(lines),
                               !.island = @ \cup lines]
        ELSE ls[j]]

SlicedModel_create_infill(cfg, ls) ==
    LET u == clamped(cfg, Len(ls))
    IN  create_island_top_layers(
            infill_pass(cfg,
                infill_pass(cfg, ls, bottom_pass(Len(ls), u.bottom_layers)),
                top_pass(Len(ls), u.top_layers)))

\* SlicedModel.node_count: the sum of the node_count of the layers
RECURSIVE SlicedModel_node_count(_)
SlicedModel_node_count(ls) ==
    IF ls = <<>> THEN 0 ELSE Head(ls).node_count + SlicedModel_node_count(Tail(ls))

\* LayerMesh.create_mesh: the nodes it has written when it returns, len(path)
\* for every path of every perimeter and 2 * len(layer.infill) for a layer
\* with infill
RECURSIVE create_mesh_node_count(_)
create_mesh_node_count(ls) ==
    IF ls = <<>> THEN 0
    ELSE SumCard(Head(ls).perimeters)
         + (IF Len(Head(ls).infill) # 0 THEN 2 * Len(Head(ls).infill) ELSE 0)
         + create_mesh_node_count(Tail(ls))

(* ------------------- SlicedModelSpec: the layer stack ----------------- *)

\* Half-widths of the contours: without a path, too thin for a perimeter,
\* wide enough for one ring, wide enough for two
Shapes == {-1, 1, 2, 4}

SlicedConfigs ==
    {[first_layer_height |-> 1, layer_height |-> 1, perimeters |-> p,
      bottom_layers |-> b, top_layers |-> t] :
        p \in 1..MaxPerimeters, b \in 0..MaxSolidLayers, t \in 0..MaxSolidLayers}

\* SlicedModel(cfg, contours) for up to MaxLayers contours of any shapes
SlicedModelInit ==
    /\ SlicerIdle
    /\ ContourIdle
    /\ OffsetIdle
    /\ ParserIdle
    /\ TriangleIdle
    /\ DialogIdle
    /\ CombIdle
    /\ MergeIdle
    /\ ThreadIdle
    /\ \E cfg \in SlicedConfigs, n \in 0..MaxLayers : \E hs \in [1..n -> Shapes] :
          LET cs == [k \in 1..n |->
                        [paths |-> Centred(hs[k]), z |-> contour_z(cfg, k - 1)]]
          IN  /\ sm_cfg = cfg
              /\ sm_contours = cs
              /\ layers = SlicedModel_init(cfg, cs, 1)
    /\ call_log = <<>>

\* SlicedModel.create_perimeters()
CreatePerimeters ==
    /\ Len(call_log) < MaxCalls
    /\ layers' = SlicedModel_create_perimeters(sm_cfg, layers)
    /\ call_log' = Append(call_log, "create_perimeters")
    /\ UNCHANGED <<sm_cfg, sm_contours>>
    /\ UNCHANGED outside_sliced_model

\* SlicedModel.create_infill()
CreateInfill ==
    /\ Len(call_log) < MaxCalls
    /\ layers' = SlicedModel_create_infill(sm_cfg, layers)
    /\ call_log' = Append(call_log, "create_infill")
    /\ UNCHANGED <<sm_cfg, sm_contours>>
    /\ UNCHANGED outside_sliced_model

SlicedModelNext == CreatePerimeters \/ CreateInfill

SlicedModelSpec == SlicedModelInit /\ [][SlicedModelNext]_vars

(* ---------------- OffsetSpec: the offsets of the rings ----------------- *)
(* Settings are hundredths of a millimetre, as the two-digit spin controls  *)
(* hold them; lengths of the arithmetic are quarters of a micrometre, in    *)
(* which every factor below is a whole number.                              *)

\* Nozzle diameter: from 0.1 mm to 2.0 mm
NozzleDiameterMin == 10

NozzleDiameterMax == 200

\* Layer height: from 0.0 mm to 10.0 mm
LayerHeightMax == 1000

\* The increment of the spin controls, 0.1 mm
SpinIncrement == 10

\* SlicerConfig.extrusion_width = nozzle_diameter * 1.2
cfg_extrusion_width(cfg) == 48 * cfg.nozzle_diameter

\* SlicerConfig.extrusion_width_external_perimeter = nozzle_diameter * 1.05
cfg_extrusion_width_external_perimeter(cfg) == 42 * cfg.nozzle_diameter

\* layer_height * cfg.extrusion_overlap_factor, the factor being 0.4
overlap(layer_height) == 16 * layer_height

\* offset_outlines: the inward offset of ring nr_of_perimeters
offset(cfg, layer_height, nr_of_perimeters) ==
    cfg_extrusion_width_external_perimeter(cfg)
    + (nr_of_perimeters - 1) * cfg_extrusion_width(cfg)
    - (nr_of_perimeters - 1) * overlap(layer_height)

\* The inset of ring nr: Layer._create_external_perimeters for the first,
\* Layer._create_internal_perimeters for the others
inset(cfg, nr) ==
    IF nr = 1 THEN cfg_extrusion_width_external_perimeter(cfg) \div 2
    ELSE cfg_extrusion_width(cfg) \div 2

\* offset_outlines moves the outline inwards by offset, then outwards by inset
net_displacement(cfg, nr) == offset(cfg, cfg.layer_height, nr) - inset(cfg, nr)

OffsetConfigs ==
    {[nozzle_diameter |-> n, layer_height |-> h, perimeters |-> p] :
        n \in {NozzleDiameterMin + SpinIncrement * i :
                  i \in 0..((NozzleDiameterMax - NozzleDiameterMin) \div SpinIncrement)},
        h \in {SpinIncrement * i : i \in 0..(LayerHeightMax \div SpinIncrement)},
        p \in 2..MaxRings}

OffsetInit ==
    /\ ContourIdle
    /\ SlicerIdle
    /\ SlicedModelIdle
    /\ ParserIdle
    /\ TriangleIdle
    /\ DialogIdle
    /\ CombIdle
    /\ MergeIdle
    /\ ThreadIdle
    /\ off_cfg \in OffsetConfigs
    /\ displacements = <<>>

\* The next ring of Layer.create_perimeters on an outline wide enough for it
OffsetRing ==
    /\ Len(displacements) < off_cfg.perimeters
    /\ displacements' =
           Append(displacements, net_displacement(off_cfg, Len(displacements) + 1))
    /\ UNCHANGED off_cfg
    /\ UNCHANGED outside_offsets

OffsetNext == OffsetRing

OffsetSpec == OffsetInit /\ [][OffsetNext]_vars

(* ------------------- ParserSpec: loading an STL file ------------------ *)

\* The facets of the files: a triangle, the same triangle seen from below,
\* a facet with two identical vertices, a facet with three colinear vertices
FileFacets ==
    {<<<<0, 0, 0>>, <<1, 0, 0>>, <<0, 1, 1>>>>,
     <<<<0, 1, 1>>, <<1, 0, 0>>, <<0, 0, 0>>>>,
     <<<<0, 0, 0>>, <<0, 0, 0>>, <<1, 0, 0>>>>,
     <<<<0, 0, 0>>, <<1, 0, 0>>, <<2, 0, 0>>>>}

FileVertices == {f[k] : f \in FileFacets, k \in 1..3}

\* A vertex line that goes on with one of the facets
continues_facet(p, line) ==
    CASE p.parser_state = "OUTER_LOOP" ->
            \E f \in FileFacets : f[1] = line.data
      [] p.parser_state = "VERTEX1" ->
            \E f \in FileFacets : f[1] = p.vertex1 /\ f[2] = line.data
      [] p.parser_state = "VERTEX2" ->
            \E f \in FileFacets :
                f[1] = p.vertex1 /\ f[2] = p.vertex2 /\ f[3] = line.data
      [] OTHER -> TRUE

FileNormals == {<<0, 0, 0>>, <<0, 0, 1>>}

\* The lines of an ASCII file, by keyword and numbers; "facet" and "other"
\* are lines of no keyword of the format
FileLines ==
    {[kw |-> k, data |-> <<>>] :
        k \in {"solid", "facet", "outer loop", "endloop", "endfacet", "endsolid",
                "vertex", "facet normal", "other"}}
    \cup {[kw |-> "facet normal", data |-> n] : n \in FileNormals}
    \cup {[kw |-> "vertex", data |-> v] : v \in FileVertices}

\* StlFileParser.parse: the ASCII parser is taken when the first line starts
\* with "solid" and the second with "facet", else the binary one
starts_with(line, prefix) ==
    \/ line.kw = prefix
    \/ prefix = "facet" /\ line.kw = "facet normal"

ParserInit ==
    /\ ContourIdle
    /\ SlicerIdle
    /\ SlicedModelIdle
    /\ OffsetIdle
    /\ TriangleIdle
    /\ DialogIdle
    /\ CombIdle
    /\ MergeIdle
    /\ ThreadIdle
    /\ route \in {"ascii", "binary"}
    /\ file_lines = <<>>
    /\ parser = ParserFields
    /\ seen = <<>>
    /\ result = "parsing"

\* One pass of the loop of _parse_ascii: the next line of the file
AsciiLine ==
    /\ route = "ascii"
    /\ result = "parsing"
    /\ \E line \in FileLines :
          /\ Len(file_lines) = 0 => starts_with(line, "solid")
          /\ Len(file_lines) = 1 => starts_with(line, "facet")
          /\ line.kw = "facet normal" => parser.facet_count < MaxFacets
          /\ (line.kw = "vertex" /\ line.data # <<>>) => continues_facet(parser, line)
          /\ LET h == states(parser, line)
             IN  /\ parser' = h.p
                 /\ file_lines' = Append(file_lines, line)
                 /\ seen' = IF h.p.facet_count > parser.facet_count
                            THEN seen \o <<<<parser.vertex1, h.p.normal>>,
                                           <<parser.vertex2, h.p.normal>>,
                                           <<parser.vertex3, h.p.normal>>>>
                            ELSE seen
                 /\ result' = CASE h.did = "True" -> "parsing"
                                 [] h.did = "False" -> "mesh"
                                 [] OTHER -> h.did
    /\ UNCHANGED route
    /\ UNCHANGED outside_parser

\* The file ends: the loop of _parse_ascii is left and the arrays are returned
AsciiEndOfFile ==
    /\ route = "ascii"
    /\ result = "parsing"
    /\ Len(file_lines) >= 2
    /\ result' = "mesh"
    /\ UNCHANGED <<route, file_lines, parser, seen>>
    /\ UNCHANGED outside_parser

\* One pass of the loop of _parse_binary: a whole facet record
BinaryFacet ==
    /\ route = "binary"
    /\ result = "parsing"
    /\ parser.facet_count < MaxFacets
    /\ \E n \in FileNormals, f \in FileFacets :
          LET q == add_facet(parser, given_normal(n), f[1], f[2], f[3])
          IN  /\ parser' = q
              /\ seen' = seen \o <<<<f[1], q.normal>>, <<f[2], q.normal>>,
                                   <<f[3], q.normal>>>>
    /\ UNCHANGED <<route, file_lines, result>>
    /\ UNCHANGED outside_parser

\* The rest of the file is shorter than a facet record: unpack raises
BinaryShortRecord ==
    /\ route = "binary"
    /\ result = "parsing"
    /\ result' = "struct.error"
    /\ UNCHANGED <<route, file_lines, parser, seen>>
    /\ UNCHANGED outside_parser

\* f.read returns b'': the loop of _parse_binary is left and the arrays are
\* returned
BinaryEndOfFile ==
    /\ route = "binary"
    /\ result = "parsing"
    /\ result' = "mesh"
    /\ UNCHANGED <<route, file_lines, parser, seen>>
    /\ UNCHANGED outside_parser

ParserNext ==
    \/ AsciiLine
    \/ AsciiEndOfFile
    \/ BinaryFacet
    \/ BinaryShortRecord
    \/ BinaryEndOfFile

ParserSpec == ParserInit /\ [][ParserNext]_vars

(* ------------------- TriangleSpec: one Triangle on its own ------------ *)

\* The vertices a Triangle is built from: numpy rows [x, y, z] of integers.
TriangleVertices == {<<x, 0, z>> : x \in 0..MaxX, z \in 0..MaxZ}

TriangleInit ==
    /\ ContourIdle
    /\ SlicerIdle
    /\ SlicedModelIdle
    /\ OffsetIdle
    /\ ParserIdle
    /\ DialogIdle
    /\ CombIdle
    /\ MergeIdle
    /\ ThreadIdle
    /\ t_input \in [1..3 -> TriangleVertices]
    /\ t_heights \in [first_layer_height : 1..MaxStep, layer_height : 1..MaxStep]
    /\ triangle = "none"
    /\ yielded = <<>>
    /\ t_pc = "input"

\* Triangle(v1, v2, v3)
TriangleNew ==
    /\ t_pc = "input"
    /\ triangle' = Triangle(t_input)
    /\ t_pc' = "built"
    /\ UNCHANGED <<t_input, t_heights, yielded>>
    /\ UNCHANGED outside_triangle

\* list(triangle.slice(first_layer_height, layer_height))
TriangleSlice ==
    /\ t_pc = "built"
    /\ yielded' = Triangle_slice(triangle, t_heights.first_layer_height,
                                 t_heights.layer_height, 1)
    /\ t_pc' = "sliced"
    /\ UNCHANGED <<t_input, t_heights, triangle>>
    /\ UNCHANGED outside_triangle

TriangleNext == TriangleNew \/ TriangleSlice

TriangleSpec == TriangleInit /\ [][TriangleNext]_vars

(* ------------- DialogSpec: SlicerDialog.slice of ui/dialog.py --------- *)

\* SlicerDialog.__init__, shown; on_show has handed slice to the event loop
\* and s = slicer.Slicer(slicer_config, model, self.update) is slicing.
DialogInit ==
    /\ ContourIdle
    /\ SlicerIdle
    /\ SlicedModelIdle
    /\ OffsetIdle
    /\ ParserIdle
    /\ TriangleIdle
    /\ CombIdle
    /\ MergeIdle
    /\ ThreadIdle
    /\ dlg_cancel = FALSE
    /\ dlg_sliced_model = "None"
    /\ gauge = 0
    /\ static_text = ""
    /\ slicer_updates \in 0..MaxUpdates
    /\ dlg_pc = "slicing"
    /\ model_calls = <<>>
    /\ update_log = <<>>
    /\ end_modal = "none"

\* SlicerDialog.update up to wx.Yield(): the gauge and the label are set and
\* the pending events are about to be handled.
update_enter(progress, msg) ==
    /\ gauge' = progress
    /\ static_text' = msg
    /\ dlg_pc' = "yield"

\* SlicerDialog.update after wx.Yield(): return self.cancel
update_return == dlg_cancel

\* The update calls made so far from inside s.slice().
slicer_updates_done ==
    Cardinality({k \in 1..Len(update_log) : update_log[k].msg = "Slicing"})

\* s.slice() calls self.update(progress, msg) once more.
SlicerUpdate ==
    /\ dlg_pc = "slicing"
    /\ slicer_updates_done < slicer_updates
    /\ update_enter(slicer_updates_done + 1, "Slicing")
    /\ UNCHANGED <<dlg_cancel, dlg_sliced_model, slicer_updates, model_calls,
                   update_log, end_modal>>
    /\ UNCHANGED outside_dialog

\* SlicerDialog.on_cancel, run for a click on Cancel while wx.Yield() handles
\* the pending events.
DialogOnCancel ==
    /\ dlg_pc = "yield"
    /\ dlg_cancel' = TRUE
    /\ UNCHANGED <<dlg_sliced_model, gauge, static_text, slicer_updates, dlg_pc,
                   model_calls, update_log, end_modal>>
    /\ UNCHANGED outside_dialog

\* update returns into s.slice(): on cancel the slicer gives up, s.slice()
\* returns None and slice ends the dialog with ID_CANCEL; else it goes on.
SlicerUpdateReturn ==
    /\ dlg_pc = "yield"
    /\ static_text = "Slicing"
    /\ update_log' = Append(update_log, [msg |-> static_text,
                                          returned |-> update_return])
    /\ IF update_return
       THEN /\ dlg_sliced_model' = "None"
            /\ end_modal' = "ID_CANCEL"
            /\ dlg_pc' = "ended"
       ELSE /\ dlg_pc' = "slicing"
            /\ UNCHANGED <<dlg_sliced_model, end_modal>>
    /\ UNCHANGED <<dlg_cancel, gauge, static_text, slicer_updates, model_calls>>
    /\ UNCHANGED outside_dialog

\* self.sliced_model = s.slice() with nothing cancelled;
\* if self.sliced_model: self.update(110, "Creating perimeters")
SlicerReturn ==
    /\ dlg_pc = "slicing"
    /\ slicer_updates_done = slicer_updates
    /\ dlg_sliced_model' = "SlicedModel"
    /\ update_enter(110, "Creating perimeters")
    /\ UNCHANGED <<dlg_cancel, slicer_updates, model_calls, update_log, end_modal>>
    /\ UNCHANGED outside_dialog

\* update(110, ...) returns, its value is dropped;
\* self.sliced_model.create_perimeters();
\* self.update(120, "Creating top and bottom infill")
PerimetersUpdateReturn ==
    /\ dlg_pc = "yield"
    /\ static_text = "Creating perimeters"
    /\ update_log' = Append(update_log, [msg |-> static_text,
                                          returned |-> update_return])
    /\ model_calls' = Append(model_calls, "create_perimeters")
    /\ update_enter(120, "Creating top and bottom infill")
    /\ UNCHANGED <<dlg_cancel, dlg_sliced_model, slicer_updates, end_modal>>
    /\ UNCHANGED outside_dialog

\* update(120, ...) returns, its value is dropped;
\* self.sliced_model.create_top_and_bottom_layers(); self.EndModal(wx.ID_OK)
InfillUpdateReturn ==
    /\ dlg_pc = "yield"
    /\ static_text = "Creating top and bottom infill"
    /\ update_log' = Append(update_log, [msg |-> static_text,
                                          returned |-> update_return])
    /\ model_calls' = Append(model_calls, "create_top_and_bottom_layers")
    /\ end_modal' = "ID_OK"
    /\ dlg_pc' = "ended"
    /\ UNCHANGED <<dlg_cancel, dlg_sliced_model, gauge, static_text,
                   slicer_updates>>
    /\ UNCHANGED outside_dialog

DialogNext ==
    \/ SlicerUpdate
    \/ DialogOnCancel
    \/ SlicerUpdateReturn
    \/ SlicerReturn
    \/ PerimetersUpdateReturn
    \/ InfillUpdateReturn

DialogSpec == DialogInit /\ [][DialogNext]_vars

(* ---------------- CombSpec: the infill lines before rotation ---------- *)

\* The input of the comb: the larger side of the bounds of the
\* region to fill and the distance of two lines, both integers.
CombInit ==
    /\ ContourIdle
    /\ SlicerIdle
    /\ SlicedModelIdle
    /\ OffsetIdle
    /\ ParserIdle
    /\ TriangleIdle
    /\ DialogIdle
    /\ MergeIdle
    /\ ThreadIdle
    /\ comb_in \in [line_length : 1..MaxExtent, line_distance : 1..MaxSpacing]
    /\ comb = <<>>
    /\ comb_pc = "input"

\* int(math.ceil(line_length / line_distance))
infill_inc(line_length, line_dist) == (line_length + line_dist - 1) \div line_dist

\* A segment [[x, -line_length], [x, line_length]]; x is held in halves
\* (x2 = 2 * x), because x = j + line_distance / 2 is a float.
Segment(x2, line_length) == [x2 |-> x2, y_from |-> -line_length, y_to |-> line_length]

\* range(line_distance // 2, infill_inc * line_distance, line_distance)
comb_range(line_length, line_dist) ==
    LET start == line_dist \div 2
        stop  == infill_inc(line_length, line_dist) * line_dist
        count == IF stop <= start THEN 0
                 ELSE (stop - start + line_dist - 1) \div line_dist
    IN  [k \in 1..count |-> start + (k - 1) * line_dist]

\* The list infill of line_infill and of Layer.create_infill before it is
\* rotated: the line through 0, then for every j the lines at x and -x with
\* x = j + line_distance / 2.
comb_lines(line_length, line_dist) ==
    IF infill_inc(line_length, line_dist) > 0
    THEN LET js == comb_range(line_length, line_dist)
         IN  <<Segment(0, line_length)>>
             \o [k \in 1..(2 * Len(js)) |->
                    LET j == js[(k + 1) \div 2]
                        x2 == 2 * j + line_dist
                    IN  Segment(IF k % 2 = 1 THEN x2 ELSE -x2, line_length)]
    ELSE <<>>

BuildComb ==
    /\ comb_pc = "input"
    /\ comb' = comb_lines(comb_in.line_length, comb_in.line_distance)
    /\ comb_pc' = "built"
    /\ UNCHANGED comb_in
    /\ UNCHANGED outside_comb

CombNext == BuildComb

CombSpec == CombInit /\ [][CombNext]_vars

(* ---------- MergeSpec: Layer._merge_intersecting_meshes --------------- *)

\* Layer.MIN_DIST_BETWEEN_POINTS
MIN_DIST_BETWEEN_POINTS == 50

\* Intersection.xy of the intersections of the chains: points 30, 40, 50 and
\* 60 units apart, among others.
MergePoints == {<<x, y>> : x \in {0, 30, 50, 60}, y \in {0, 40}}

\* A chain as Contour.add leaves it: the backward edge of every element is
\* the forward edge of the next; closed when the last backward edge is the
\* first forward edge, open when it is another edge.
MergeChain(pts, is_closed) ==
    [k \in 1..Len(pts) |->
        [xy |-> pts[k], forward_edge |-> k,
         backward_edge |-> IF k < Len(pts) THEN k + 1
                           ELSE IF is_closed THEN 1 ELSE Len(pts) + 1]]

\* A Contour of no chain or of one chain.
MergeInit ==
    /\ ContourIdle
    /\ SlicerIdle
    /\ SlicedModelIdle
    /\ OffsetIdle
    /\ ParserIdle
    /\ TriangleIdle
    /\ DialogIdle
    /\ CombIdle
    /\ ThreadIdle
    /\ \/ merge_contour = <<>>
       \/ \E n \in 1..MaxChain : \E pts \in [1..n -> MergePoints] :
            \E is_closed \in BOOLEAN :
                merge_contour = <<MergeChain(pts, is_closed)>>
    /\ pc_paths = <<>>
    /\ merge_pc = "input"

\* dist_longer_than(p1, p2, d)
dist_longer_than(p1, p2, d) ==
    d * d < (p2[1] - p1[1]) * (p2[1] - p1[1]) + (p2[2] - p1[2]) * (p2[2] - p1[2])

\* for intersection in intersections: the path built from the k-th on
RECURSIVE build_path(_, _, _)
build_path(chain, k, path) ==
    IF k > Len(chain) THEN path
    ELSE build_path(chain, k + 1,
             IF path = <<>>
                \/ dist_longer_than(path[Len(path)], chain[k].xy,
                                    MIN_DIST_BETWEEN_POINTS)
             THEN Append(path, chain[k].xy) ELSE path)

\* The path of a chain, <<>> when len(intersections) <= 1
chain_path(chain) == IF Len(chain) > 1 THEN build_path(chain, 1, <<>>) ELSE <<>>

\* for intersections in contour: ... if len(path) > 2: pc.AddPath(path, ..., True)
RECURSIVE added_paths(_, _)
added_paths(c, k) ==
    IF k > Len(c) THEN <<>>
    ELSE (IF Len(chain_path(c[k])) > 2
          THEN <<[chain |-> k, path |-> chain_path(c[k]), is_closed |-> TRUE]>>
          ELSE <<>>) \o added_paths(c, k + 1)

\* Layer._merge_intersecting_meshes: pc.Execute raises ClipperException when
\* no path was added, and the Layer raises EmptyLayerException.
MergeIntersectingMeshes ==
    /\ merge_pc = "input"
    /\ pc_paths' = added_paths(merge_contour, 1)
    /\ merge_pc' = IF added_paths(merge_contour, 1) = <<>>
                   THEN "EmptyLayerException" ELSE "outlines"
    /\ UNCHANGED merge_contour
    /\ UNCHANGED outside_merge

MergeNext == MergeIntersectingMeshes

MergeSpec == MergeInit /\ [][MergeNext]_vars

(* ------ ThreadSpec: SlicerDialog of dialog/slicer.py and its thread ---- *)

\* SlicerDialog.slice_model: the thread is started on ModelSlicer.execute and
\* the dialog is shown modal.
ThreadInit ==
    /\ ContourIdle
    /\ SlicerIdle
    /\ SlicedModelIdle
    /\ OffsetIdle
    /\ ParserIdle
    /\ TriangleIdle
    /\ DialogIdle
    /\ CombIdle
    /\ MergeIdle
    /\ th_worker = "running"
    /\ th_updates_left \in 0..MaxUpdates
    /\ th_events = 0
    /\ th_cancel = FALSE
    /\ th_cancelled = FALSE
    /\ th_end_modal = "none"

\* Worker thread, in Slicer.slice: self.cancelled = self.update_func(...);
\* SlicerDialog.update posts _update with wx.CallAfter and returns
\* self.cancel; the loop is left by break when it is set.
WorkerCallback ==
    /\ th_worker = "running"
    /\ th_updates_left > 0
    /\ th_events' = th_events + 1
    /\ th_cancelled' = th_cancel
    /\ th_updates_left' = IF th_cancel THEN 0 ELSE th_updates_left - 1
    /\ UNCHANGED <<th_worker, th_cancel, th_end_modal>>
    /\ UNCHANGED outside_thread

\* Worker thread: the loop of Slicer.slice is over, ModelSlicer.execute
\* builds the SlicedModel unless cancelled and returns; the thread ends.
WorkerFinish ==
    /\ th_worker = "running"
    /\ th_updates_left = 0
    /\ th_worker' = "finished"
    /\ UNCHANGED <<th_updates_left, th_events, th_cancel, th_cancelled, th_end_modal>>
    /\ UNCHANGED outside_thread

\* Event loop: SlicerDialog.on_cancel for a click on Cancel
ThreadOnCancel ==
    /\ th_end_modal = "none"
    /\ th_cancel' = TRUE
    /\ UNCHANGED <<th_worker, th_updates_left, th_events, th_cancelled, th_end_modal>>
    /\ UNCHANGED outside_thread

\* Event loop: SlicerDialog._update for the oldest posted call; after
\* thread.join(0.02) the dialog is ended if the thread is not alive.
GuiUpdate ==
    /\ th_events > 0
    /\ th_events' = th_events - 1
    /\ th_end_modal' = IF th_worker = "finished"
                       THEN (IF th_cancelled THEN "ID_CANCEL" ELSE "ID_OK")
                       ELSE th_end_modal
    /\ UNCHANGED <<th_worker, th_updates_left, th_cancel, th_cancelled>>
    /\ UNCHANGED outside_thread

ThreadNext == WorkerCallback \/ WorkerFinish \/ ThreadOnCancel \/ GuiUpdate

\* The thread runs when it can and the event loop runs every posted call;
\* nobody has to click Cancel.
ThreadSpec ==
    /\ ThreadInit
    /\ [][ThreadNext]_vars
    /\ WF_vars(WorkerCallback)
    /\ WF_vars(WorkerFinish)
    /\ WF_vars(GuiUpdate)

(* ------------------------------ claims -------------------------------- *)

F_int == int_first_layer_height(slicer_config)

L_int == int_layer_height(slicer_config)

\* Triangle n of the slicer has its three vertices on the plane of a layer
OnLayerPlane(n) ==
    LET t == triangles[n]
    IN  /\ t[1][3] = t[2][3] /\ t[2][3] = t[3][3]
        /\ t[1][3] >= F_int
        /\ (t[1][3] - F_int) % L_int = 0

LayerOfPlane(n) == (triangles[n][1][3] - F_int) \div L_int

\* The intersections held by the contours, with their layer
HeldIntersections ==
    {contours[l][c][e] : <<l, c, e>> \in
        {x \in (DOMAIN contours) \X (1..8) \X (1..8) :
            x[2] \in DOMAIN contours[x[1]] /\ x[3] \in DOMAIN contours[x[1]][x[2]]}}

\* C2 (as claimed): the Slicer holds floor((z_max - first_layer_height) /
\* layer_height) + 1 contours, none when that is not positive, and no
\* intersection indexes the contours out of range.
C2_LayerIndexInRange ==
    pc # "idle" =>
        /\ Len(contours) = Max({0, layer_count(model, slicer_config)})
        /\ pc # "IndexError"

\* C3: after a mesh has been sliced, a triangle with its three vertices on
\* the plane of a layer has contributed no intersection, and the chains of
\* that layer are all closed.
C3_HorizontalTriangleSkipped ==
    (pc = "done" /\ ~cancelled) =>
        \A n \in 1..Len(triangles) :
            OnLayerPlane(n) =>
                /\ \A i \in HeldIntersections : i.tri # n
                /\ LayerOfPlane(n) < Len(contours)
                /\ \A c \in 1..Len(contours[LayerOfPlane(n) + 1]) :
                       closed(contours[LayerOfPlane(n) + 1][c])

\* A sliced mesh with a triangle on the plane of a layer whose contour is a
\* closed chain of three or more intersections.
C3_Witness ==
    /\ pc = "done" /\ ~cancelled
    /\ \E n \in 1..Len(triangles) :
          /\ OnLayerPlane(n)
          /\ LayerOfPlane(n) < Len(contours)
          /\ \E c \in 1..Len(contours[LayerOfPlane(n) + 1]) :
                /\ Len(contours[LayerOfPlane(n) + 1][c]) >= 3
                /\ closed(contours[LayerOfPlane(n) + 1][c])

\* C4: once the callback has returned cancel, no further triangle is taken,
\* no contour changes, the callback is not invoked again and
\* Slicer.cancelled stays true.
C4_NoWorkAfterCancel ==
    [][cancelled => /\ triangle_no' = triangle_no
                    /\ contours' = contours
                    /\ callbacks' = callbacks
                    /\ cancelled']_vars

\* slice() has returned after a cancel that came before the last triangle.
C4_Witness ==
    /\ pc = "done"
    /\ cancelled
    /\ callbacks >= 1
    /\ triangle_no < Len(triangles)

\* C5 (as claimed): the callback is invoked at every triangle whose number
\* is a multiple of update_interval, so that no more than update_interval
\* triangles are taken after the cancel flag is set.
C5_CancelWithinInterval ==
    (update_func /\ pc \in {"slicing", "done"}) =>
        /\ callbacks = triangle_no \div update_interval
        /\ cancel_at >= 0 => triangle_no - cancel_at <= update_interval

\* C6 (as claimed): after a cancelled run no SlicedModel exists and the
\* contours of the Slicer hold no intersection.
C6_NothingSurvivesCancel ==
    (pc = "done" /\ cancelled) =>
        /\ sliced_model = "None"
        /\ \A l \in 1..Len(contours) : contours[l] = <<>>

\* C1: once every intersection of a manifold layer has been added, in any
\* order, every chain of the Contour is closed.
C1_AllChainsClosed ==
    pending = {} => \A k \in 1..Len(contour) : closed(contour[k])

\* Every intersection of a layer has been added, two chains were merged on
\* the way, and the layer ended with a closed chain of four intersections.
C1_Witness ==
    /\ pending = {}
    /\ merges >= 1
    /\ \E k \in 1..Len(contour) : Len(contour[k]) >= 4 /\ closed(contour[k])

(* SlicedModel *)

LastCall == IF call_log = <<>> THEN "none" ELSE call_log[Len(call_log)]

\* C7: after SlicedModel.create_perimeters has returned, every layer still
\* in SlicedModel.layers has at least one perimeter ring, whatever the number
\* and position of the layers whose first perimeter is empty.
C7_EveryKeptLayerHasPerimeter ==
    LastCall = "create_perimeters" =>
        \A j \in 1..Len(layers) : Len(layers[j].perimeters) >= 1

C9_InfillOnSolidLayersOnce ==
    [][call_log' = Append(call_log, "create_infill") =>
          LET n == Len(layers)
              b == IF sm_cfg.bottom_layers + sm_cfg.top_layers < n
                   THEN sm_cfg.bottom_layers ELSE 1
              t == IF sm_cfg.bottom_layers + sm_cfg.top_layers < n
                   THEN sm_cfg.top_layers ELSE n - 1
          IN  /\ Len(layers') = n
              /\ \A index \in 0..(n - 1) :
                    layers'[index + 1].infill_calls
                      = layers[index + 1].infill_calls
                        + (IF index < b \/ index >= n - t THEN 1 ELSE 0)]_vars

\* C9: create_infill has run on a stack of three layers with one bottom and
\* one top layer: the outer layers were infilled once, the middle one not
C9_Witness ==
    /\ call_log = <<"create_infill">>
    /\ Len(layers) = 3
    /\ sm_cfg.bottom_layers = 1 /\ sm_cfg.top_layers = 1
    /\ layers[1].infill_calls = 1
    /\ layers[2].infill_calls = 0
    /\ layers[3].infill_calls = 1

\* C10: after create_infill, whenever the outline of layer i-1 extends beyond
\* the outline of layer i, island infill has been appended to layer i-1 and
\* to each of the top_layers - 1 layers below it (i-2 down to i-top_layers)
\* that overlap the island.
C10_IslandGetsFullSolidStack ==
    LastCall = "create_infill" =>
        \A i \in 1..(Len(layers) - 1) :
            LET footprint == layers[i].outlines \ layers[i + 1].outlines
            IN  \A k \in 0..(sm_cfg.top_layers - 1) :
                    (i - k >= 1 /\ layers[i - k].outlines \cap footprint # {})
                        => layers[i - k].island # {}

\* Calls of a method in the log
Calls(name) == Cardinality({k \in 1..Len(call_log) : call_log[k] = name})

\* Ring k of a layer: the outline moved inwards by k perimeters
Ring(l, k) ==
    offset_outlines(l.layer_height, l.outlines, k,
                    IF k = 1 THEN extrusion_width_external_perimeter \div 2
                    ELSE extrusion_width \div 2)

C12_RingsStrictlyNested ==
    \A k \in 1..(Len(displacements) - 1) : displacements[k] < displacements[k + 1]

(* StlFileParser *)

\* A normal as a value, whatever objects hold it
NormalValue(n) == [nan |-> n.nan, value |-> n.value]

\* C13: after any sequence of facets the number of emitted vertices is the
\* number of distinct (vertex, normal) pairs seen, vertices and normals have
\* the same length, len(indices) = 3 * facet_count, every index is below
\* len(vertices), and vertices[indices[j]] is the j-th input vertex with
\* normals[indices[j]] the normal of its facet.
C13_OneVertexPerDistinctPair ==
    /\ Len(parser.vertices)
         = Cardinality({<<seen[j][1], NormalValue(seen[j][2])>> : j \in 1..Len(seen)})
    /\ Len(parser.vertices) = Len(parser.normals)
    /\ Len(parser.indices) = 3 * parser.facet_count
    /\ Len(parser.indices) = Len(seen)
    /\ \A j \in 1..Len(parser.indices) :
          /\ parser.indices[j] < Len(parser.vertices)
          /\ parser.vertices[parser.indices[j] + 1] = seen[j][1]
          /\ NormalValue(parser.normals[parser.indices[j] + 1])
               = NormalValue(seen[j][2])

\* C14: every load that returns a mesh returns a bounding box with
\* min <= max on every axis, and a file without facets returns no mesh.
C14_MeshHasFacetsAndBox ==
    result = "mesh" =>
        /\ parser.facet_count > 0
        /\ ~Less(bounding_box(parser).x_max, bounding_box(parser).x_min)
        /\ ~Less(bounding_box(parser).y_max, bounding_box(parser).y_min)
        /\ ~Less(bounding_box(parser).z_max, bounding_box(parser).z_min)

\* The grammar solid (facet normal, outer loop, vertex, vertex, vertex,
\* endloop, endfacet)* endsolid
FacetKeywords ==
    <<"facet normal", "outer loop", "vertex", "vertex", "vertex", "endloop", "endfacet">>

MatchesGrammar(ls) ==
    /\ Len(ls) >= 2
    /\ ls[1].kw = "solid"
    /\ ls[Len(ls)].kw = "endsolid"
    /\ (Len(ls) - 2) % 7 = 0
    /\ \A k \in 2..(Len(ls) - 1) :
          /\ ls[k].kw = FacetKeywords[((k - 2) % 7) + 1]
          /\ ls[k].kw \in {"facet normal", "vertex"} => Len(ls[k].data) = 3

\* C15: the ASCII parser returns a mesh only when the lines of the file match
\* the grammar; a file that ends before endsolid or in the middle of a facet
\* ends in a parse error.
C15_AsciiMeshOnlyFromGrammar ==
    (route = "ascii" /\ result = "mesh") => MatchesGrammar(file_lines)

\* A triangle without area: (v2 - v1) x (v3 - v1) = 0
WithoutArea(t) ==
    LET a == <<t[2][1] - t[1][1], t[2][2] - t[1][2], t[2][3] - t[1][3]>>
        b == <<t[3][1] - t[1][1], t[3][2] - t[1][2], t[3][3] - t[1][3]>>
    IN  /\ a[2] * b[3] - a[3] * b[2] = 0
        /\ a[3] * b[1] - a[1] * b[3] = 0
        /\ a[1] * b[2] - a[2] * b[1] = 0

\* C16: a triangle with two identical vertices or with three colinear
\* vertices contributes no intersection to any layer.
C16_DegenerateTriangleSkipped ==
    (pc = "done" /\ ~cancelled) =>
        \A n \in 1..Len(triangles) :
            WithoutArea(triangles[n]) => \A i \in HeldIntersections : i.tri # n

(* Contour, any input *)

\* C17, as stated: in every chain the forward edge of each element is the
\* backward edge of the element after it.
C17_ForwardMeetsNextBackward ==
    \A k \in 1..Len(contour) : \A j \in 1..(Len(contour[k]) - 1) :
        contour[k][j].forward_edge = contour[k][j + 1].backward_edge

\* C17, amended: after any sequence of Contour.add calls, in every chain the
\* backward edge of each element is the forward edge of the element after
\* it, the joins made by merging two chains included.
C17_BackwardMeetsNextForward ==
    \A k \in 1..Len(contour) : \A j \in 1..(Len(contour[k]) - 1) :
        contour[k][j].backward_edge = contour[k][j + 1].forward_edge

\* Three intersections were added, the third one joined two chains, and the
\* one chain left runs over three different edges.
C17_Witness ==
    /\ pending = {}
    /\ merges >= 1
    /\ Len(contour) = 1
    /\ Len(contour[1]) = 3
    /\ contour[1][1].forward_edge # contour[1][2].forward_edge
    /\ contour[1][2].forward_edge # contour[1][3].forward_edge
    /\ contour[1][1].forward_edge # contour[1][3].forward_edge

(* Triangle *)

\* The z of the three vertices as given, lowest, middle and highest.
InputZ == {t_input[j][3] : j \in 1..3}

v_min_z == Min(InputZ)

v_max_z == Max(InputZ)

v_med_z == t_input[1][3] + t_input[2][3] + t_input[3][3] - v_min_z - v_max_z

\* The z of the plane of layer l.
Plane(l) == t_heights.first_layer_height + l * t_heights.layer_height

\* C18: Triangle.slice yields exactly one Intersection for every layer
\* l >= 0 whose plane lies in v_min.z < z <= v_max.z and none for any other
\* layer; the Intersection is on that plane and carries the lower forward
\* and backward edge when z <= v_med.z and the upper ones when z > v_med.z;
\* and start <= middle <= end.
C18_OneIntersectionPerCrossedPlane ==
    t_pc = "sliced" =>
        LET fe == get_forward_edge(triangle)
            f  == t_heights.first_layer_height
            h  == t_heights.layer_height
        IN  /\ \A k \in 1..Len(yielded) : yielded[k].layer \in 0..(MaxZ + 1)
            /\ \A l \in 0..(MaxZ + 1) :
                  Cardinality({k \in 1..Len(yielded) : yielded[k].layer = l})
                      = IF v_min_z < Plane(l) /\ Plane(l) <= v_max_z THEN 1 ELSE 0
            /\ \A k \in 1..Len(yielded) :
                  LET i == yielded[k]
                  IN  /\ i.intersection # "ZeroDivisionError"
                      /\ i.intersection[3] = Plane(i.layer)
                      /\ IF Plane(i.layer) <= v_med_z
                         THEN i.forward_edge = fe[1] /\ i.backward_edge = fe[3]
                         ELSE i.forward_edge = fe[2] /\ i.backward_edge = fe[4]
            /\ slice_start(triangle, f, h) <= slice_middle(triangle, f, h)
            /\ slice_middle(triangle, f, h) <= slice_end(triangle, f, h)

\* A triangle with three different heights was sliced: one plane goes
\* through v_med and one through v_max, one lies above v_med, and the planes
\* below v_min and through v_min gave nothing.
C18_Witness ==
    /\ t_pc = "sliced"
    /\ v_min_z < v_med_z
    /\ v_med_z < v_max_z
    /\ Plane(0) <= v_min_z
    /\ \E l \in 0..MaxZ : Plane(l) = v_min_z
    /\ \E k \in 1..Len(yielded) : Plane(yielded[k].layer) = v_med_z
    /\ \E k \in 1..Len(yielded) : Plane(yielded[k].layer) = v_max_z
    /\ Len(yielded) >= 3

\* The table of the forward edges: (slot(v_min), slot(v_max)) -> the names
\* of <<lower forward, upper forward, lower backward, upper backward>>.
ForwardEdgeTable ==
    (<<0, 1>> :> <<"s2", "s3", "s1", "s1">>) @@
    (<<0, 2>> :> <<"s1", "s1", "s2", "s3">>) @@
    (<<1, 0>> :> <<"s1", "s1", "s2", "s3">>) @@
    (<<1, 2>> :> <<"s2", "s3", "s1", "s1">>) @@
    (<<2, 0>> :> <<"s2", "s3", "s1", "s1">>) @@
    (<<2, 1>> :> <<"s1", "s1", "s2", "s3">>)

\* The coordinates of a tagged vertex.
Coordinates(v) == <<v.x, v.y, v.z>>

\* C19: for every triangle, ties in z included, vz_min, vz_med, vz_max are
\* the three input vertices, each once, with vz_min.z <= vz_med.z <=
\* vz_max.z; s1, s2, s3 are the edges (v_min, v_max), (v_min, v_med),
\* (v_med, v_max); and get_forward_edge returns the row of the table for
\* (slot(v_min), slot(v_max)), never None.
C19_SortedAndForwardEdgeFromTable ==
    t_pc \in {"built", "sliced"} =>
        /\ triangle.ordered
        /\ {triangle.vz_min.flag, triangle.vz_med.flag, triangle.vz_max.flag}
               = {0, 1, 2}
        /\ \A v \in {triangle.vz_min, triangle.vz_med, triangle.vz_max} :
               Coordinates(v) = t_input[v.flag + 1]
        /\ triangle.vz_min.z <= triangle.vz_med.z
        /\ triangle.vz_med.z <= triangle.vz_max.z
        /\ triangle.s1 = Edge(triangle.vz_min, triangle.vz_max)
        /\ triangle.s2 = Edge(triangle.vz_min, triangle.vz_med)
        /\ triangle.s3 = Edge(triangle.vz_med, triangle.vz_max)
        /\ Len(get_forward_edge(triangle)) = 4
        /\ <<triangle.vz_min.flag, triangle.vz_max.flag>>
               \in DOMAIN ForwardEdgeTable
        /\ get_forward_edge(triangle)
               = [j \in 1..4 |->
                    triangle[ForwardEdgeTable[<<triangle.vz_min.flag,
                                                triangle.vz_max.flag>>][j]]]

\* A Triangle was built from vertices whose first and third are at the same
\* height below the second: the third became vz_min, the first vz_med, and
\* the forward edges are the row (2, 1) of the table.
C19_Witness ==
    /\ t_pc = "built"
    /\ t_input[1][3] = t_input[3][3]
    /\ t_input[1][3] < t_input[2][3]
    /\ t_input[1] # t_input[3]
    /\ triangle.vz_min.flag = 2
    /\ triangle.vz_med.flag = 0
    /\ triangle.vz_max.flag = 1
    /\ get_forward_edge(triangle)
           = <<triangle.s1, triangle.s1, triangle.s2, triangle.s3>>

(* SlicerDialog *)

\* get_sliced_model() once the dialog has ended
get_sliced_model == dlg_sliced_model

\* The update calls made at the phase transitions.
PhaseMessages == {"Creating perimeters", "Creating top and bottom infill"}

\* C20: when an update call made at a phase transition ("Creating
\* perimeters", "Creating top and bottom infill") returned cancel, the
\* dialog ends with ID_CANCEL and hands no sliced model to the caller.
C20_CancelAtPhaseCallbackEndsCancelled ==
    (/\ dlg_pc = "ended"
     /\ \E k \in 1..Len(update_log) :
            update_log[k].msg \in PhaseMessages /\ update_log[k].returned)
        => (end_modal = "ID_CANCEL" /\ get_sliced_model = "None")

(* SlicedModel, layer numbers *)

\* C21: the index of a layer in SlicedModel.layers is its layer number,
\* after construction and after create_perimeters, also when contours or
\* layers were empty and dropped.
C21_IndexIsLayerNumber ==
    \A i \in 1..Len(layers) : layers[i].layer_no = i - 1

(* Infill comb *)

\* C22: with n = ceil(L / d) the comb holds exactly 2n+1 segments, each from
\* y = -L to y = +L, at the x positions 0, +-d, ..., +-n*d, for odd d as
\* well as even d.  (x is held in halves.)
C22_CombEvenlySpaced ==
    comb_pc = "built" =>
        LET L == comb_in.line_length
            d == comb_in.line_distance
            n == (L + d - 1) \div d
        IN  /\ Len(comb) = 2 * n + 1
            /\ \A k \in 1..Len(comb) : comb[k].y_from = -L /\ comb[k].y_to = L
            /\ {comb[k].x2 : k \in 1..Len(comb)} = {2 * (i * d) : i \in (-n)..n}

(* Layer builder *)

\* Squared distance of two points.
Dist2(p1, p2) ==
    (p2[1] - p1[1]) * (p2[1] - p1[1]) + (p2[2] - p1[2]) * (p2[2] - p1[2])

\* The points of a chain kept when a point is skipped exactly when it is
\* less than MIN_DIST_BETWEEN_POINTS from the point kept before it.
RECURSIVE KeptPoints(_, _, _)
KeptPoints(chain, k, path) ==
    IF k > Len(chain) THEN path
    ELSE KeptPoints(chain, k + 1,
             IF path = <<>>
                \/ ~(Dist2(path[Len(path)], chain[k].xy)
                        < MIN_DIST_BETWEEN_POINTS * MIN_DIST_BETWEEN_POINTS)
             THEN Append(path, chain[k].xy) ELSE path)

\* C23: the path of a chain skips a point exactly when it is less than
\* MIN_DIST_BETWEEN_POINTS from the point kept before it (a point exactly
\* that far is kept), the first point is always kept, and the path is given
\* to the union exactly when it has at least 3 points.
C23_PointKeptAtMinimumDistance ==
    merge_pc \in {"outlines", "EmptyLayerException"} =>
        \A c \in 1..Len(merge_contour) :
            LET kept == KeptPoints(merge_contour[c], 1, <<>>)
            IN  IF Len(kept) >= 3
                THEN \E k \in 1..Len(pc_paths) :
                        pc_paths[k].chain = c /\ pc_paths[k].path = kept
                ELSE \A k \in 1..Len(pc_paths) : pc_paths[k].chain # c

\* C24: only closed chains are given to the union as closed paths.
C24_OnlyClosedChainsInUnion ==
    \A k \in 1..Len(pc_paths) : closed(merge_contour[pc_paths[k].chain])

(* Contour, conservation *)

\* The places <<chain, position>> of a Contour.
Places(c) == UNION {{<<k, j>> : j \in 1..Len(c[k])} : k \in 1..Len(c)}

\* Every intersection added so far is at exactly one place, nothing else is
\* in the Contour, and no chain is empty.
EachAddedOnce ==
    /\ \A k \in 1..Len(contour) : Len(contour[k]) >= 1
    /\ \A pl \in Places(contour) :
          contour[pl[1]][pl[2]].id \in (DOMAIN layer_ints) \ pending
    /\ \A i \in (DOMAIN layer_ints) \ pending :
          Cardinality({pl \in Places(contour) : contour[pl[1]][pl[2]].id = i}) = 1

\* chain is found in one piece, in its order, inside some chain of c.
KeptInOrder(chain, c) ==
    \E k \in 1..Len(c) : \E off \in 0..(Len(c[k]) - Len(chain)) :
        \A j \in 1..Len(chain) : c[k][off + j] = chain[j]

\* One add changes the number of chains by +1, 0 or -1, and every chain
\* there was is still there in one piece and in its order.
AddKeepsChains ==
    /\ Len(contour') - Len(contour) \in {-1, 0, 1}
    /\ \A k \in 1..Len(contour) : KeptInOrder(contour[k], contour')

\* C25: after any sequence of Contour.add calls every added Intersection is
\* in exactly one chain exactly once and no chain is empty; each add changes
\* the number of chains by +1, 0 or -1 and a merge loses, duplicates or
\* reorders no element of either chain.
C25_AddConservesIntersections == []EachAddedOnce /\ [][AddKeepsChains]_vars

\* Four intersections of a layer with a hole were added, two chains were
\* joined on the way, and what is left is one open chain of four.
C25_Witness ==
    /\ pending = {}
    /\ merges >= 1
    /\ Len(layer_ints) = 4
    /\ Len(contour) = 1
    /\ ~closed(contour[1])

(* Contour, order of the add calls *)

\* The ids of the intersections of a chain, in order.
Ids(chain) == [j \in 1..Len(chain) |-> chain[j].id]

\* The id of the intersection that follows i on the outline of a manifold
\* layer: the one whose forward edge is the backward edge of i.
Follower(i) ==
    CHOOSE j \in DOMAIN layer_ints :
        layer_ints[j].forward_edge = layer_ints[i].backward_edge

\* The outline through i, from i on, once around.
RECURSIVE Around(_, _)
Around(i, j) == IF Follower(j) = i THEN <<j>> ELSE <<j>> \o Around(i, Follower(j))

\* The outlines of the layer, each written from its smallest id on.
Outlines ==
    {Around(i, i) : i \in {i \in DOMAIN layer_ints :
                              \A j \in 1..Len(Around(i, i)) : i <= Around(i, i)[j]}}

\* A sequence of ids turned so that it starts with its smallest id.
FromSmallest(ids) ==
    LET m == CHOOSE j \in 1..Len(ids) : \A k \in 1..Len(ids) : ids[j] <= ids[k]
    IN  [j \in 1..Len(ids) |-> ids[((m + j - 2) % Len(ids)) + 1]]

\* C26: whatever the order of the add calls, once every intersection of a
\* manifold layer is added the chains of the Contour are the outlines of
\* the layer, one chain per outline, each equal to its outline as a cyclic
\* sequence.
C26_SameChainsInAnyOrder ==
    pending = {} =>
        /\ Len(contour) = Cardinality(Outlines)
        /\ {FromSmallest(Ids(contour[k])) : k \in 1..Len(contour)} = Outlines

\* A layer with one outline of four intersections was added with a merge on
\* the way, and the chain does not start with the intersection its outline
\* is written from.
C26_Witness ==
    /\ pending = {}
    /\ merges >= 1
    /\ Cardinality(Outlines) = 1
    /\ Len(contour) = 1
    /\ Len(contour[1]) = 4
    /\ Ids(contour[1]) # FromSmallest(Ids(contour[1]))

(* Triangle, winding and edges *)

\* The layer, forward edge and backward edge of the Intersections that
\* Triangle.slice yields for the vertices t, in order.
EdgesYielded(t) ==
    LET ints == Triangle_slice(Triangle(t), t_heights.first_layer_height,
                               t_heights.layer_height, 1)
    IN  [k \in 1..Len(ints) |->
            [layer |-> ints[k].layer, forward_edge |-> ints[k].forward_edge,
             backward_edge |-> ints[k].backward_edge]]

\* The same with forward and backward edge exchanged.
EdgesExchanged(es) ==
    [k \in 1..Len(es) |->
        [layer |-> es[k].layer, forward_edge |-> es[k].backward_edge,
         backward_edge |-> es[k].forward_edge]]

\* The vertices in reverse order: the other winding.
Reversed(t) == <<t[3], t[2], t[1]>>

\* C27: the forward and backward edges of the Intersections of a triangle
\* are the same for the three rotations of its vertex order, ties in z
\* included, and reversing the vertex order exchanges forward and backward
\* edge.
C27_EdgesFollowWinding ==
    t_pc = "sliced" =>
        LET es == [k \in 1..Len(yielded) |->
                      [layer |-> yielded[k].layer,
                       forward_edge |-> yielded[k].forward_edge,
                       backward_edge |-> yielded[k].backward_edge]]
        IN  /\ es = EdgesYielded(t_input)
            /\ EdgesYielded(Rotated(t_input, 1)) = es
            /\ EdgesYielded(Rotated(t_input, 2)) = es
            /\ EdgesYielded(Reversed(t_input)) = EdgesExchanged(es)

\* A triangle whose first two vertices are different points at the same
\* height below the third was sliced and gave an Intersection whose forward
\* and backward edge differ.
C27_Witness ==
    /\ t_pc = "sliced"
    /\ t_input[1][3] = t_input[2][3]
    /\ t_input[1] # t_input[2]
    /\ t_input[1][3] < t_input[3][3]
    /\ Len(yielded) >= 1
    /\ yielded[1].forward_edge # yielded[1].backward_edge

\* C28: the forward edge and the backward edge (p, q) of every Intersection
\* that Triangle.slice yields at height z satisfy p.z < z <= q.z, so
\* get_point_at_z never divides by zero and its parameter s lies in (0, 1].
C28_EdgesSpanThePlane ==
    \A k \in 1..Len(yielded) :
        LET z == yielded[k].intersection[3]
            f == yielded[k].forward_edge
            b == yielded[k].backward_edge
        IN  /\ yielded[k].intersection # "ZeroDivisionError"
            /\ z = Plane(yielded[k].layer)
            /\ f.p[3] < z /\ z <= f.q[3]
            /\ b.p[3] < z /\ z <= b.q[3]

\* A triangle with two vertices at the same height above the third was
\* sliced, and an Intersection lies on the plane through the two.
C28_Witness ==
    /\ t_pc = "sliced"
    /\ v_min_z < v_med_z
    /\ v_med_z = v_max_z
    /\ \E k \in 1..Len(yielded) : yielded[k].intersection[3] = v_max_z

(* SlicedModel, node counts *)

\* C29: in every state of a SlicedModel the node_count of each layer is the
\* number of points of the paths of its perimeters plus 2 for each entry of
\* its infill, and SlicedModel.node_count, the sum over the layers in the
\* stack, is the number of nodes LayerMesh.create_mesh writes into the
\* buffers it sized with it.
C29_NodeCountMatchesContents ==
    /\ \A i \in 1..Len(layers) :
          layers[i].node_count
              = SumCard(layers[i].perimeters) + 2 * Len(layers[i].infill)
    /\ SlicedModel_node_count(layers) = create_mesh_node_count(layers)

\* create_perimeters removed a layer that raised EmptyLayerException, then
\* create_infill ran: a layer holds a perimeter, a layer holds infill lines
\* of an island, and the stack counts more than 4 nodes.
C29_Witness ==
    /\ call_log = <<"create_perimeters", "create_infill">>
    /\ Len(layers) < Cardinality({k \in 1..Len(sm_contours) :
                                     ~layer_init_raises(sm_contours[k])})
    /\ \E i \in 1..Len(layers) : layers[i].perimeters # <<>>
    /\ \E i \in 1..Len(layers) : layers[i].island # {}
    /\ SlicedModel_node_count(layers) > 4

(* Threaded SlicerDialog *)

\* C30: once the worker thread has finished, the modal dialog is eventually
\* ended, with ID_CANCEL if the slicer was cancelled and with ID_OK
\* otherwise.
C30_DialogEndsAfterWorker ==
    (th_worker = "finished")
        ~> (th_end_modal = IF th_cancelled THEN "ID_CANCEL" ELSE "ID_OK")

====
